---------------------------- MODULE Spec2Model ----------------------------
(***************************************************************************)
(* Model of the pyndigo client protocol engine (pyndigo/client.py), of the  *)
(* driver engine (pyndigo/driver.py) and of the property model they share  *)
(* (pyndigo/common.py).                                                    *)
(*                                                                         *)
(* A device owns its properties and a property owns its items, so objects  *)
(* are nested records; a property refers back to its device by name.       *)
(* Python dicts are insertion-ordered: they are sequences of <<key, value>> *)
(* pairs.  A missing JSON field read with .get() is the string None.  A    *)
(* JSON key such as "defTextVector" is the token sequence                  *)
(* <<"def", "Text", "Vector">>, so that startswith and string              *)
(* concatenation are operations on tokens.  Numbers are their decimal text.*)
(***************************************************************************)
EXTENDS Integers, Sequences, FiniteSets, TLC

VARIABLES
    client_devices,   \* PyndigoClient._client_devices : dict name -> device
    held,             \* the property the application kept from the latest
                      \* property_has_changed call, NoProperty before the first
    client_timestamp, \* PyndigoClient._timestamp
    client_message,   \* PyndigoClient._message
    transport,        \* PyndigoClient._transport : "None" or "transport"
    outbuf,           \* what transport.write received, one entry per call
    loop,             \* the asyncio event loop: "new", "running", "stopped"
    fired,            \* notification hooks invoked by the last call
    raised,           \* exception that escaped the last call, or "none"
    last,             \* the last call and its arguments
    wire,             \* bytes the peer has sent and the transport has not yet
                      \* handed to data_received
    dispatched,       \* the objects the loop of _parse_messages went through
                      \* in the last data_received call that was given bytes
    driver_devices,   \* PyndigoDriver._driver_devices : dict name -> device
    printed,          \* what the last call of the driver wrote on sys.stdout,
                      \* one entry per print
    called,           \* the callbacks of the device the last call invoked
    stdout,           \* the write calls sys.stdout received, in order, each
                      \* with the thread that made it
    threads,          \* for each thread of the driver process, the write
                      \* calls the statement it is in still has to make
    stdin,            \* sys.stdin of the driver process: the elements written
                      \* to it and not yet read, and whether it has been closed
    reader            \* where the main thread of the driver is: "init" before
                      \* read() is called, "read" in its loop, "returned"

streamVars == <<wire, dispatched>>

driverVars == <<driver_devices, printed, called>>

inputVars == <<stdin, reader>>

threadVars == <<stdout, threads, inputVars>>

vars == <<client_devices, held, client_timestamp, client_message,
          transport, outbuf, loop, fired, raised, last, streamVars, driverVars,
          threadVars>>

-----------------------------------------------------------------------------
(* Bounds *)

MaxOut == 2        \* transport.write calls
MaxWrites == 4     \* write calls on sys.stdout
MaxBytes == 4      \* bytes of a value handed to set_value
MaxStdin == 2      \* elements written to sys.stdin and not yet read
MaxWire == 20      \* bytes sent and not yet handed to data_received

-----------------------------------------------------------------------------
(* Constants of common.py *)

None == "None"

STATE_OK == "Ok"
STATE_BUSY == "Busy"
STATE_ALERT == "Alert"
STATE_IDLE == "Idle"

TYPE_TEXT == "Text"
TYPE_NUMBER == "Number"
TYPE_SWITCH == "Switch"
TYPE_LIGHT == "Light"
TYPE_BLOB == "BLOB"

PERM_RW == "rw"
PERM_RO == "ro"
PERM_WO == "wo"

Types == {TYPE_TEXT, TYPE_NUMBER, TYPE_SWITCH, TYPE_LIGHT, TYPE_BLOB}

ClientName == "Mi cliente"

-----------------------------------------------------------------------------
(* Python dict: insertion-ordered sequence of <<key, value>> *)

DictHas(d, k) == \E i \in 1..Len(d) : d[i][1] = k

DictGet(d, k, default) ==
    IF DictHas(d, k)
    THEN d[CHOOSE i \in 1..Len(d) : d[i][1] = k][2]
    ELSE default

DictSet(d, k, v) ==
    IF DictHas(d, k)
    THEN [i \in 1..Len(d) |-> IF d[i][1] = k THEN <<k, v>> ELSE d[i]]
    ELSE Append(d, <<k, v>>)

DictPop(d, k) == SelectSeq(d, LAMBDA e : e[1] # k)

DictKeys(d) == {d[i][1] : i \in 1..Len(d)}

-----------------------------------------------------------------------------
(* common.py : PyndigoItem *)

\* PyndigoItem.__init__ with _decoded_json: the item built from a payload item
PyndigoItem_init(prop_type, json) ==
    [name        |-> json.name,
     label       |-> json.label,
     value       |-> json.value,
     hints       |-> json.hints,
     format      |-> IF prop_type = TYPE_NUMBER THEN json.format ELSE None,
     min         |-> IF prop_type = TYPE_NUMBER THEN json.min ELSE None,
     max         |-> IF prop_type = TYPE_NUMBER THEN json.max ELSE None,
     step        |-> IF prop_type = TYPE_NUMBER THEN json.step ELSE None,
     blob_format |-> IF prop_type = TYPE_BLOB THEN json.format ELSE "",
     size        |-> "0",
     url         |-> None,
     target      |-> None]

\* PyndigoItem._update: assigns the value, then calls is_BLOB(), a method
\* PyndigoProperty does not have (it defines is_blob): AttributeError.
PyndigoItem_update(item, json) ==
    [item   |-> [item EXCEPT !.value = json.value],
     raised |-> "AttributeError"]

-----------------------------------------------------------------------------
(* common.py : PyndigoProperty *)

\* The loop of PyndigoProperty.__init__ over the payload items: each
\* PyndigoItem is constructed and dropped, _add_item is never called.
RECURSIVE InitItems(_, _, _)
InitItems(prop_type, jsonItems, acc) ==
    IF jsonItems = <<>> THEN acc
    ELSE LET it == PyndigoItem_init(prop_type, Head(jsonItems))
         IN  InitItems(prop_type, Tail(jsonItems), acc)

\* PyndigoProperty.__init__ without the TYPE_LIGHT branch: permission and
\* timeout always come from the payload
PyndigoProperty_init_PayloadPerm(device, prop_type, json) ==
    [device    |-> device,
     type      |-> prop_type,
     name      |-> json.name,
     state     |-> json.state,
     label     |-> json.label,
     group     |-> json.group,
     timestamp |-> json.timestamp,
     message   |-> json.message,
     hints     |-> json.hints,
     rule      |-> IF prop_type = TYPE_SWITCH THEN json.rule ELSE None,
     timeout   |-> json.timeout,
     perm      |-> json.perm,
     items     |-> <<>>]

\* PyndigoProperty.__init__ with _decoded_json
PyndigoProperty_init(device, prop_type, json) ==
    [device    |-> device,
     type      |-> prop_type,
     name      |-> json.name,
     state     |-> json.state,
     label     |-> json.label,
     group     |-> json.group,
     timestamp |-> json.timestamp,
     message   |-> json.message,
     hints     |-> json.hints,
     rule      |-> IF prop_type = TYPE_SWITCH THEN json.rule ELSE None,
     timeout   |-> IF prop_type = TYPE_LIGHT THEN "0" ELSE json.timeout,
     perm      |-> IF prop_type = TYPE_LIGHT THEN PERM_RO ELSE json.perm,
     items     |-> InitItems(prop_type, json.items, <<>>)]

\* The loop of PyndigoProperty._update over the payload items; stops at the
\* first exception (get_item gives None for an unknown name).
RECURSIVE UpdateItems(_, _)
UpdateItems(items, jsonItems) ==
    IF jsonItems = <<>> THEN [items |-> items, raised |-> "none"]
    ELSE LET i == Head(jsonItems)
         IN  IF ~DictHas(items, i.name)
             THEN [items |-> items, raised |-> "AttributeError"]
             ELSE LET r == PyndigoItem_update(DictGet(items, i.name, None), i)
                      items2 == DictSet(items, i.name, r.item)
                  IN  IF r.raised # "none"
                      THEN [items |-> items2, raised |-> r.raised]
                      ELSE UpdateItems(items2, Tail(jsonItems))

\* _update that gives every item of the property the value of the first
\* item of the payload
PyndigoProperty_update_All(prop, json) ==
    [prop   |-> [prop EXCEPT !.items =
                    [k \in 1..Len(prop.items) |->
                        <<prop.items[k][1],
                          [prop.items[k][2] EXCEPT !.value =
                              IF json.items = <<>> THEN @
                              ELSE json.items[1].value]>>]],
     raised |-> "none"]

\* _update without the test on TYPE_LIGHT: the timeout always comes from the
\* payload
PyndigoProperty_update_Timeout(prop, json) ==
    LET p1 == [prop EXCEPT !.state = json.state,
                           !.timestamp = json.timestamp,
                           !.message = json.message,
                           !.timeout = json.timeout]
        r == UpdateItems(p1.items, json.items)
    IN  [prop |-> [p1 EXCEPT !.items = r.items], raised |-> r.raised]

\* _update that stores the message of the payload as the label
PyndigoProperty_update_Label(prop, json) ==
    LET p1 == [prop EXCEPT !.state = json.state,
                           !.timestamp = json.timestamp,
                           !.label = json.message,
                           !.timeout = IF prop.type # TYPE_LIGHT
                                       THEN json.timeout ELSE @]
        r == UpdateItems(p1.items, json.items)
    IN  [prop |-> [p1 EXCEPT !.items = r.items], raised |-> r.raised]

\* PyndigoProperty._update
PyndigoProperty_update(prop, json) ==
    LET p1 == [prop EXCEPT !.state = json.state,
                           !.timestamp = json.timestamp,
                           !.message = json.message,
                           !.timeout = IF prop.type # TYPE_LIGHT
                                       THEN json.timeout ELSE @]
        r == UpdateItems(p1.items, json.items)
    IN  [prop |-> [p1 EXCEPT !.items = r.items], raised |-> r.raised]

is_read_only(prop) == prop.perm = PERM_RO

-----------------------------------------------------------------------------
(* common.py : PyndigoDevice *)

PyndigoDevice_init(name) ==
    [name |-> name, properties |-> <<>>, timestamp |-> "0", message |-> ""]

\* PyndigoDevice.remove_property(property_name, timestamp, message)
remove_property(dev, property_name, timestamp, message) ==
    IF DictHas(dev.properties, property_name)
    THEN [dev EXCEPT !.properties = DictPop(@, property_name),
                     !.timestamp = timestamp,
                     !.message = message]
    ELSE dev

\* PyndigoDevice._update_message
Device_update_message(dev, timestamp, message) ==
    [dev EXCEPT !.timestamp = timestamp, !.message = message]

-----------------------------------------------------------------------------
(* client.py : PyndigoClient, the handlers as functions of the client state *)
(* st = [cd, ts, msg, fired, raised]                                       *)

NoProperty == [name |-> None]
NoDevice == [name |-> None]

\* PyndigoClient.get_client_device
get_client_device(st, device_name) == DictGet(st.cd, device_name, NoDevice)

\* PyndigoDevice.get_property
get_property(dev, propertyName) == DictGet(dev.properties, propertyName, NoProperty)

\* PyndigoClient._get_device_or_create
get_device_or_create(st, device_name) ==
    IF get_client_device(st, device_name) # NoDevice
    THEN st
    ELSE [st EXCEPT !.cd = DictSet(@, device_name, PyndigoDevice_init(device_name))]

\* _remove_client_device that records the removal and forgets the pop
remove_client_device_NoPop(st, deviceName, timestamp, message) ==
    IF DictHas(st.cd, deviceName)
    THEN [st EXCEPT !.ts = timestamp, !.msg = message]
    ELSE st

\* PyndigoClient._remove_client_device(deviceName, timestamp, message)
remove_client_device(st, deviceName, timestamp, message) ==
    IF DictHas(st.cd, deviceName)
    THEN [st EXCEPT !.cd = DictPop(@, deviceName),
                    !.ts = timestamp,
                    !.msg = message]
    ELSE st

\* the type chosen from the key of a def message
DefType(key) ==
    IF key = <<"def", "Text", "Vector">> THEN TYPE_TEXT
    ELSE IF key = <<"def", "Number", "Vector">> THEN TYPE_NUMBER
    ELSE IF key = <<"def", "Switch", "Vector">> THEN TYPE_SWITCH
    ELSE IF key = <<"def", "Light", "Vector">> THEN TYPE_LIGHT
    ELSE TYPE_BLOB

Fire(hook, arg) == [hook |-> hook, arg |-> arg]

\* what "prop = PyndigoProperty(dev, type, _decoded_json = value)" leaves in
\* the device: the constructor does not call add_property
DefineProperty(dev, prop) == dev

\* _parse_messages, branch key.startswith("def")
HandleDef(st, key, value) ==
    LET s1 == get_device_or_create(st, value.device)
        dev == get_client_device(s1, value.device)
    IN  IF get_property(dev, value.name) = NoProperty
        THEN LET prop == PyndigoProperty_init(value.device, DefType(key), value)
             IN  [s1 EXCEPT !.cd = DictSet(@, value.device, DefineProperty(dev, prop)),
                            !.fired = Append(@, Fire("property_has_changed", prop))]
        ELSE s1

\* the set branch looking the device up the way the def branch does
HandleSet_Creates(st, key, value) ==
    LET s1 == get_device_or_create(st, value.device)
        dev == get_client_device(s1, value.device)
        prop == get_property(dev, value.name)
    IN  IF prop = NoProperty
        THEN [s1 EXCEPT !.raised = "AttributeError"]
        ELSE s1

\* _parse_messages, branch key.startswith("set")
HandleSet(st, key, value) ==
    LET dev == get_client_device(st, value.device)
    IN  IF dev # NoDevice
        THEN LET prop == get_property(dev, value.name)
             IN  IF prop = NoProperty
                 THEN [st EXCEPT !.raised = "AttributeError"]
                 ELSE LET r == PyndigoProperty_update(prop, value)
                          d1 == [dev EXCEPT !.properties =
                                     DictSet(@, value.name, r.prop)]
                          s1 == [st EXCEPT !.cd = DictSet(@, value.device, d1)]
                      IN  IF r.raised # "none"
                          THEN [s1 EXCEPT !.raised = r.raised]
                          ELSE [s1 EXCEPT !.fired =
                                   Append(@, Fire("property_has_changed", r.prop))]
        ELSE st

\* _parse_messages, branch key == "message"
HandleMessage(st, value) ==
    IF value.device # None
    THEN LET dev == get_client_device(st, value.device)
         IN  IF dev # NoDevice
             THEN [st EXCEPT !.cd = DictSet(@, value.device,
                                 Device_update_message(dev, value.timestamp,
                                                       value.message)),
                             !.fired = Append(@, Fire("device_message_arrived",
                                                      value.device))]
             ELSE st
    ELSE [st EXCEPT !.ts = value.timestamp,
                    !.msg = value.message,
                    !.fired = Append(@, Fire("client_message_arrived", None))]

\* the loop "for p in properties.values(): dev.remove_property(p.get_name(),
\* message, timestamp)" over the copy get_properties() returns
RECURSIVE RemoveAll(_, _, _, _)
RemoveAll(dev, properties, a2, a3) ==
    IF properties = <<>> THEN dev
    ELSE RemoveAll(remove_property(dev, Head(properties)[2].name, a2, a3),
                   Tail(properties), a2, a3)

\* the deleteProperty branch without the test of propertyName: the device
\* goes whatever the message names
HandleDelete_WholeDevice(st, value) ==
    IF value.device # None
    THEN remove_client_device(st, value.device, value.message, value.timestamp)
    ELSE st

\* _parse_messages, branch key == "deleteProperty".  The remove calls pass
\* (message, timestamp) where the callees' parameters are (timestamp, message).
HandleDelete(st, value) ==
    IF value.device # None
    THEN LET dev == get_client_device(st, value.device)
         IN  IF dev # NoDevice
             THEN IF value.name = None
                  THEN LET d1 == RemoveAll(dev, dev.properties,
                                           value.message, value.timestamp)
                           s1 == [st EXCEPT !.cd = DictSet(@, value.device, d1)]
                       IN  remove_client_device(s1, value.device,
                                                value.message, value.timestamp)
                  ELSE [st EXCEPT !.cd = DictSet(@, value.device,
                                      remove_property(dev, value.name,
                                          value.message, value.timestamp))]
             ELSE st
    ELSE st

\* one iteration of the loop of _parse_messages
HandleOne(st, m) ==
    IF m.key[1] = "def" THEN HandleDef(st, m.key, m.value)
    ELSE IF m.key[1] = "set" THEN HandleSet(st, m.key, m.value)
    ELSE IF m.key = <<"message">> THEN HandleMessage(st, m.value)
    ELSE IF m.key = <<"deleteProperty">> THEN HandleDelete(st, m.value)
    ELSE st

\* PyndigoClient._parse_messages: an exception ends the loop
RECURSIVE parse_messages(_, _)
parse_messages(st, messages) ==
    IF messages = <<>> \/ st.raised # "none" THEN st
    ELSE parse_messages(HandleOne(st, Head(messages)), Tail(messages))

-----------------------------------------------------------------------------
(* client.py : outbound requests *)

Separator == "\n\n"

\* json.dumps of the items list built by propertyUpdate from itemValues
RECURSIVE DumpItems(_)
DumpItems(itemValues) ==
    IF itemValues = <<>> THEN <<>>
    ELSE <<"{", "name", Head(itemValues)[1], "value", Head(itemValues)[2], "}">>
         \o DumpItems(Tail(itemValues))

\* json.dumps of {"new" + type + "Vector": {"device", "name", "items"}}
DumpNewVector(type, device_name, prop_name, itemValues) ==
    <<"{", "new", type, "Vector", "{", "device", device_name,
      "name", prop_name, "items", "[">>
    \o DumpItems(itemValues) \o <<"]", "}", "}">>

\* json.dumps of {"getProperties": {"version": 512, "client": name}}
DumpGetProperties(name) ==
    <<"{", "getProperties", "{", "version", "512", "client", name, "}", "}">>

\* _writeMsg without the "\n\n"
writeMsg_NoSeparator(tr, out, msgTokens) ==
    IF tr # None THEN Append(out, msgTokens) ELSE out

\* PyndigoClient._writeMsg: one transport.write of the text and "\n\n"
writeMsg(tr, out, msgTokens) ==
    IF tr # None THEN Append(out, msgTokens \o <<Separator>>) ELSE out

\* the part of propertyUpdate after the property is resolved
SendUpdate(tr, out, prop, itemValues) ==
    IF ~is_read_only(prop)
    THEN writeMsg(tr, out,
                  DumpNewVector(prop.type, prop.device, prop.name, itemValues))
    ELSE out

\* PyndigoClient.propertyUpdate.  target is a property handle
\* [form |-> "handle"] (the property the application holds) or a string
\* [form |-> "str", parts], parts being the string split at its first "@".
propertyUpdate(st, tr, out, heldProp, target, itemValues) ==
    LET res(o, r) == [out |-> o, raised |-> r]
    IN  IF target.form = "str"
        THEN IF Len(target.parts) < 2 THEN res(out, "IndexError")
             ELSE LET dev == get_client_device(st, target.parts[1])
                  IN  IF dev = NoDevice THEN res(out, "none")
                      ELSE LET prop == get_property(dev, target.parts[2])
                           IN  IF prop = NoProperty
                               THEN res(out, "AttributeError")
                               ELSE res(SendUpdate(tr, out, prop, itemValues),
                                        "none")
        ELSE res(SendUpdate(tr, out, heldProp, itemValues), "none")

-----------------------------------------------------------------------------
(* Inputs: what the remote peer sends and what the application asks *)

DeviceNames == {"D1", "D2"}
PropNames == {"P1", "P2"}

ItemJson(name, value) ==
    [name |-> name, value |-> value, label |-> name, hints |-> None,
     format |-> "%g", min |-> "0", max |-> "9", step |-> "1"]

DefJson(device, name, perm, items) ==
    [device |-> device, name |-> name, state |-> STATE_OK, perm |-> perm,
     label |-> name, group |-> "Main", timestamp |-> "t0", message |-> None,
     hints |-> None, rule |-> "OneOfMany", timeout |-> "10", items |-> items]

SetJson(device, name, items) ==
    [device |-> device, name |-> name, state |-> STATE_BUSY,
     timestamp |-> "t1", message |-> "upd", timeout |-> "20", items |-> items]

MessageJson(device) ==
    [device |-> device, message |-> "hello", timestamp |-> "t2"]

DeleteJson(device, name) ==
    [device |-> device, name |-> name, message |-> "bye", timestamp |-> "t3"]

Msg(key, value) == [key |-> key, value |-> value]

DefKey(kind) == <<"def", kind, "Vector">>
SetKey(kind) == <<"set", kind, "Vector">>

\* the properties the remote peer announces, one of them a second time with
\* other attributes
DefMessages ==
    { Msg(DefKey(TYPE_TEXT),
          DefJson("D1", "P1", PERM_RW, <<ItemJson("I1", "v1"), ItemJson("I2", "v1")>>)),
      Msg(DefKey(TYPE_TEXT),
          DefJson("D1", "P1", PERM_RO, <<ItemJson("I1", "v2")>>)),
      Msg(DefKey(TYPE_NUMBER),
          DefJson("D1", "P2", PERM_RO, <<ItemJson("I1", "v1")>>)),
      Msg(DefKey(TYPE_SWITCH),
          DefJson("D2", "P1", PERM_RW, <<ItemJson("I1", "v1"), ItemJson("I2", "v2")>>)),
      Msg(DefKey(TYPE_LIGHT),
          DefJson("D2", "P2", PERM_RW, <<ItemJson("I1", "v1")>>)),
      Msg(DefKey(TYPE_BLOB),
          DefJson("D2", "P1", PERM_WO, <<ItemJson("I1", "v1")>>)) }

SetMessages ==
    { Msg(SetKey(TYPE_TEXT), SetJson(d, "P1", <<ItemJson("I1", "v2")>>))
        : d \in DeviceNames }
    \cup { Msg(SetKey(TYPE_TEXT), SetJson("D1", "P1", <<ItemJson("I3", "v2")>>)) }

MessageMessages == { Msg(<<"message">>, MessageJson(d)) : d \in {None, "D1"} }

DeleteMessages ==
    { Msg(<<"deleteProperty">>, DeleteJson(d, n))
        : d \in DeviceNames, n \in {None, "P1"} }

\* objects under keys the protocol does not define for this direction; the
\* last one has a key that begins with "def"
OtherMessages ==
    { Msg(<<"getProperties">>, [version |-> "512"]),
      Msg(<<"def", "Foo", "Vector">>,
          DefJson("D1", "P2", PERM_RW, <<ItemJson("I1", "v1")>>)) }

Messages ==
    DefMessages \cup SetMessages \cup MessageMessages \cup DeleteMessages
    \cup OtherMessages

\* a message about a property followed, in the same read, by an update of
\* that property or by a message object
StreamPairs ==
    { <<m1, m2>> : m1 \in DefMessages \cup SetMessages,
                   m2 \in SetMessages \cup MessageMessages }
    \ { <<m1, m2>> \in (DefMessages \cup SetMessages) \X SetMessages :
            \/ m1.value.device # m2.value.device
            \/ m1.value.name # m2.value.name }

\* the lists json.loads yields for one data_received call
Chunks == { <<m>> : m \in Messages } \cup StreamPairs

ItemValues == { <<>>, <<<<"I1", "v2">>, <<"I2", "v1">>>> }

Targets ==
    { [form |-> "handle"] }
    \cup { [form |-> "str", parts |-> <<d, "P1">>] : d \in DeviceNames }
    \cup { [form |-> "str", parts |-> <<"D1">>] }

-----------------------------------------------------------------------------
(* JSON text.  Bytes on the wire are a sequence of one-character strings    *)
(* (ASCII, so bytes.decode() yields the same characters).  A decoded value *)
(* is a record: a string with its characters, an object with its members   *)
(* (a dict key -> value), an array with its elements.                      *)

Quote == "\""

JStr(s) == [t |-> "str", s |-> s, m |-> <<>>, e |-> <<>>]
JObj(m) == [t |-> "obj", s |-> <<>>, m |-> m, e |-> <<>>]
JArr(e) == [t |-> "arr", s |-> <<>>, m |-> <<>>, e |-> e]

\* the decoder raised JSONDecodeError
DecodeError == [ok |-> FALSE, val |-> JStr(<<>>), next |-> 0]

Decoded(val, next) == [ok |-> TRUE, val |-> val, next |-> next]

\* position of the first Quote of s at or after i, 0 if there is none
RECURSIVE ClosingQuote(_, _)
ClosingQuote(s, i) ==
    IF i > Len(s) THEN 0
    ELSE IF s[i] = Quote THEN i
    ELSE ClosingQuote(s, i + 1)

\* json.decoder.scanstring: s[i] is the opening Quote
scanstring(s, i) ==
    LET j == ClosingQuote(s, i + 1)
    IN  IF j = 0 THEN DecodeError
        ELSE Decoded(JStr(SubSeq(s, i + 1, j - 1)), j + 1)

\* json.scanner: one JSON value of s that starts at position i.  The texts
\* of the model have no digit, no sign and no letter that begins a literal.
RECURSIVE scan_once(_, _)
RECURSIVE JSONObject(_, _, _)
RECURSIVE JSONArray(_, _, _)
scan_once(s, i) ==
    IF i > Len(s) THEN DecodeError
    ELSE IF s[i] = Quote THEN scanstring(s, i)
    ELSE IF s[i] = "{"
         THEN IF i + 1 <= Len(s) /\ s[i + 1] = "}"
              THEN Decoded(JObj(<<>>), i + 2)
              ELSE JSONObject(s, i + 1, <<>>)
    ELSE IF s[i] = "["
         THEN IF i + 1 <= Len(s) /\ s[i + 1] = "]"
              THEN Decoded(JArr(<<>>), i + 2)
              ELSE JSONArray(s, i + 1, <<>>)
    ELSE DecodeError

\* the members of an object from position i on: "key":value , ... }
JSONObject(s, i, acc) ==
    IF i > Len(s) \/ s[i] # Quote THEN DecodeError
    ELSE LET k == scanstring(s, i)
         IN  IF ~k.ok \/ k.next > Len(s) \/ s[k.next] # ":" THEN DecodeError
             ELSE LET v == scan_once(s, k.next + 1)
                  IN  IF ~v.ok \/ v.next > Len(s) THEN DecodeError
                      ELSE IF s[v.next] = "}"
                           THEN Decoded(JObj(DictSet(acc, k.val.s, v.val)),
                                        v.next + 1)
                      ELSE IF s[v.next] = ","
                           THEN JSONObject(s, v.next + 1,
                                           DictSet(acc, k.val.s, v.val))
                      ELSE DecodeError

\* the elements of an array from position i on: value , ... ]
JSONArray(s, i, acc) ==
    LET v == scan_once(s, i)
    IN  IF ~v.ok \/ v.next > Len(s) THEN DecodeError
        ELSE IF s[v.next] = "]"
             THEN Decoded(JArr(Append(acc, v.val)), v.next + 1)
        ELSE IF s[v.next] = ","
             THEN JSONArray(s, v.next + 1, Append(acc, v.val))
        ELSE DecodeError

\* json.loads: one value, and nothing after it ("Extra data" otherwise)
json_loads(s) ==
    LET r == scan_once(s, 1)
    IN  IF r.ok /\ r.next = Len(s) + 1 THEN r ELSE DecodeError

\* str.replace("}{", "},{")
RECURSIVE str_replace(_)
str_replace(s) ==
    IF Len(s) < 2 THEN s
    ELSE IF s[1] = "}" /\ s[2] = "{"
         THEN <<"}", ",", "{">> \o str_replace(SubSeq(s, 3, Len(s)))
    ELSE <<s[1]>> \o str_replace(Tail(s))

\* data_received without the replace: the bytes go to json.loads as they are
decode_NoReplace(data) == json_loads(<<"[">> \o data \o <<"]">>)

\* data_received: dataR = "[" + data.decode().replace("}{", "},{") + "]" and
\* y = json.loads(dataR)
decode(data) == json_loads(<<"[">> \o str_replace(data) \o <<"]">>)

\* the body of the loop of _parse_messages for a decoded value m: m.items()
\* exists for a dict only.  The keys of the texts of the model have the
\* letters a and d only, so each key reaches the final else (print(key)).
HandleDecoded(st, m) ==
    IF m.t # "obj" THEN [st EXCEPT !.raised = "AttributeError"] ELSE st

\* _parse_messages over decoded values: r.st is the client state, r.done the
\* values the loop went through before an exception ended it
RECURSIVE parse_decoded(_, _, _)
parse_decoded(st, messages, done) ==
    IF messages = <<>> THEN [st |-> st, done |-> done]
    ELSE LET s1 == HandleDecoded(st, Head(messages))
         IN  IF s1.raised # "none" THEN [st |-> s1, done |-> done]
             ELSE parse_decoded(s1, Tail(messages), Append(done, Head(messages)))

\* Prueba2.py parse_json_stream: the values it yields for data, from position
\* idx on
RECURSIVE parse_json_stream_from(_, _, _)
parse_json_stream_from(data, idx, acc) ==
    IF idx > Len(data) THEN acc
    ELSE LET r == scan_once(data, idx)
         IN  IF r.ok
             THEN parse_json_stream_from(data, r.next, Append(acc, r.val))
             ELSE parse_json_stream_from(data, idx + 1, acc)

parse_json_stream(data) == parse_json_stream_from(data, 1, <<>>)

\* the compact text of a value, as the peer writes it
RECURSIVE Dumps(_)
RECURSIVE DumpsMembers(_)
Dumps(v) ==
    IF v.t = "str" THEN <<Quote>> \o v.s \o <<Quote>>
    ELSE <<"{">> \o DumpsMembers(v.m) \o <<"}">>

DumpsMembers(m) ==
    IF m = <<>> THEN <<>>
    ELSE <<Quote>> \o m[1][1] \o <<Quote, ":">> \o Dumps(m[1][2])
         \o (IF Len(m) > 1 THEN <<",">> ELSE <<>>) \o DumpsMembers(Tail(m))

\* the objects the peer sends in the stream model: a text value, a nested
\* empty object, a text value that holds the characters }{
WireObjects ==
    { JObj(<< <<<<"a">>, JStr(<<"d">>)>> >>),
      JObj(<< <<<<"d">>, JObj(<<>>)>> >>),
      JObj(<< <<<<"a">>, JStr(<<"}", "{">>)>> >>) }

\* a byte that belongs to no JSON text
Junk == "x"

-----------------------------------------------------------------------------
(* common.py : what the driver side uses of PyndigoProperty and PyndigoItem *)

is_blob(prop) == prop.type = TYPE_BLOB

\* PyndigoProperty.add_text / add_number / add_switch / add_light / add_blob:
\* the item is constructed from the arguments and _add_item stores it
add_item(prop, args) ==
    [prop EXCEPT !.items = DictSet(@, args.name, PyndigoItem_init(prop.type, args))]

RECURSIVE add_items(_, _)
add_items(prop, argsList) ==
    IF argsList = <<>> THEN prop
    ELSE add_items(add_item(prop, Head(argsList)), Tail(argsList))

\* one attribute of an XML tag, as the f-strings write it
Attr(name, value) == <<name, "='", value, "'">>

\* PyndigoItem._get_def_xml
Item_get_def_xml(prop_type, item) ==
    <<"  ", "<def", prop_type, " ">> \o Attr("name", item.name)
    \o <<" ">> \o Attr("label", item.label)
    \o (IF item.hints # None THEN <<" ">> \o Attr("hints", item.hints) ELSE <<>>)
    \o (IF prop_type = TYPE_NUMBER
        THEN <<" ">> \o Attr("format", item.format)
             \o <<" ">> \o Attr("min", item.min)
             \o <<" ">> \o Attr("max", item.max)
             \o <<" ">> \o Attr("step", item.step)
        ELSE <<>>)
    \o <<">", item.value, "</def", prop_type, ">", "\n">>

RECURSIVE Items_get_def_xml(_, _)
Items_get_def_xml(prop_type, items) ==
    IF items = <<>> THEN <<>>
    ELSE Item_get_def_xml(prop_type, Head(items)[2])
         \o Items_get_def_xml(prop_type, Tail(items))

\* PyndigoProperty._get_def_xml.  The hints attribute is appended without a
\* space before it.
Property_get_def_xml(prop) ==
    <<"<def", prop.type, "Vector", " ">> \o Attr("device", prop.device)
    \o <<" ">> \o Attr("name", prop.name)
    \o <<" ">> \o Attr("group", prop.group)
    \o <<" ">> \o Attr("label", prop.label)
    \o <<" ">> \o Attr("state", prop.state)
    \o (IF prop.type # TYPE_LIGHT
        THEN <<" ">> \o Attr("perm", prop.perm)
             \o <<" ">> \o Attr("timeout", prop.timeout)
        ELSE <<>>)
    \o (IF prop.type = TYPE_SWITCH THEN <<" ">> \o Attr("rule", prop.rule)
        ELSE <<>>)
    \o (IF prop.hints # None THEN Attr("hints", prop.hints) ELSE <<>>)
    \o <<">", "\n">>
    \o Items_get_def_xml(prop.type, prop.items)
    \o <<"</def", prop.type, "Vector", ">", "\n">>

\* _get_one_xml that writes the label of the item where its value goes
Item_get_one_xml_Label(prop_type, item) ==
    <<"  ", "<one", prop_type, " ">> \o Attr("name", item.name)
    \o (IF prop_type = TYPE_BLOB
        THEN <<" ">> \o Attr("size", item.size)
             \o <<" ">> \o Attr("format", item.blob_format)
        ELSE <<>>)
    \o <<">", item.label, "</one", prop_type, ">", "\n">>

\* PyndigoItem._get_one_xml
Item_get_one_xml(prop_type, item) ==
    <<"  ", "<one", prop_type, " ">> \o Attr("name", item.name)
    \o (IF prop_type = TYPE_BLOB
        THEN <<" ">> \o Attr("size", item.size)
             \o <<" ">> \o Attr("format", item.blob_format)
        ELSE <<>>)
    \o <<">", item.value, "</one", prop_type, ">", "\n">>

\* the loop of _get_set_xml over get_items().values()
RECURSIVE Items_get_one_xml(_, _)
Items_get_one_xml(prop_type, items) ==
    IF items = <<>> THEN <<>>
    ELSE Item_get_one_xml(prop_type, Head(items)[2])
         \o Items_get_one_xml(prop_type, Tail(items))

\* PyndigoProperty._get_set_xml(msg), now being what get_timestamp() returns.
\* The text does not end with a newline.
Property_get_set_xml(prop, msg, now) ==
    <<"<set", prop.type, "Vector", " ">> \o Attr("device", prop.device)
    \o <<" ">> \o Attr("name", prop.name)
    \o <<" ">> \o Attr("state", prop.state)
    \o <<" ">> \o Attr("timestamp", now)
    \o (IF msg # None THEN <<" ">> \o Attr("message", msg) ELSE <<>>)
    \o <<">", "\n">>
    \o Items_get_one_xml(prop.type, prop.items)
    \o <<"</set", prop.type, "Vector", ">">>

\* base64.b64encode(b).decode('ascii'), b a sequence of bytes: the alphabet,
\* the characters of the text, and the text itself
B64Alphabet ==
    <<"A", "B", "C", "D", "E", "F", "G", "H", "I", "J", "K", "L", "M",
      "N", "O", "P", "Q", "R", "S", "T", "U", "V", "W", "X", "Y", "Z",
      "a", "b", "c", "d", "e", "f", "g", "h", "i", "j", "k", "l", "m",
      "n", "o", "p", "q", "r", "s", "t", "u", "v", "w", "x", "y", "z",
      "0", "1", "2", "3", "4", "5", "6", "7", "8", "9", "+", "/">>

B64Pad == "="

RECURSIVE b64chars(_)
b64chars(b) ==
    IF Len(b) = 0 THEN <<>>
    ELSE IF Len(b) = 1
    THEN <<B64Alphabet[(b[1] \div 4) + 1], B64Alphabet[(b[1] % 4) * 16 + 1],
           B64Pad, B64Pad>>
    ELSE IF Len(b) = 2
    THEN <<B64Alphabet[(b[1] \div 4) + 1],
           B64Alphabet[(b[1] % 4) * 16 + (b[2] \div 16) + 1],
           B64Alphabet[(b[2] % 16) * 4 + 1], B64Pad>>
    ELSE <<B64Alphabet[(b[1] \div 4) + 1],
           B64Alphabet[(b[1] % 4) * 16 + (b[2] \div 16) + 1],
           B64Alphabet[(b[2] % 16) * 4 + (b[3] \div 64) + 1],
           B64Alphabet[(b[3] % 64) + 1]>>
         \o b64chars(SubSeq(b, 4, Len(b)))

\* the Python str made of the characters cs
RECURSIVE Join(_)
Join(cs) == IF cs = <<>> THEN "" ELSE Head(cs) \o Join(Tail(cs))

b64encode(b) == Join(b64chars(b))

\* base64.b64decode of the text made of the characters cs
B64Index(c) == (CHOOSE i \in 1..64 : B64Alphabet[i] = c) - 1

RECURSIVE b64decode(_)
b64decode(cs) ==
    IF Len(cs) < 4 THEN <<>>
    ELSE LET n1 == B64Index(cs[1])
             n2 == B64Index(cs[2])
         IN  (IF cs[3] = B64Pad THEN <<n1 * 4 + (n2 \div 16)>>
              ELSE LET n3 == B64Index(cs[3])
                   IN  IF cs[4] = B64Pad
                       THEN <<n1 * 4 + (n2 \div 16),
                              (n2 % 16) * 16 + (n3 \div 4)>>
                       ELSE <<n1 * 4 + (n2 \div 16),
                              (n2 % 16) * 16 + (n3 \div 4),
                              (n3 % 4) * 64 + B64Index(cs[4])>>)
             \o b64decode(SubSeq(cs, 5, Len(cs)))

\* the values an application hands to set_value: a str or a bytes object
Str(s) == [t |-> "str", s |-> s, b |-> <<>>]
Bytes(b) == [t |-> "bytes", s |-> "", b |-> b]

\* set_value that stores the text and leaves the size as it was
PyndigoItem_set_value_KeepSize(item, value) ==
    [item EXCEPT !.value = IF value.t = "bytes" THEN b64encode(value.b)
                           ELSE value.s]

\* PyndigoItem.set_value
PyndigoItem_set_value(item, value) ==
    IF value.t = "bytes"
    THEN [item EXCEPT !.size = ToString(Len(value.b)),
                      !.value = b64encode(value.b)]
    ELSE [item EXCEPT !.value = value.s]

\* PyndigoProperty.set_ok, set_busy, set_alert, set_idle
set_ok(prop) == [prop EXCEPT !.state = STATE_OK]
set_busy(prop) == [prop EXCEPT !.state = STATE_BUSY]
set_alert(prop) == [prop EXCEPT !.state = STATE_ALERT]
set_idle(prop) == [prop EXCEPT !.state = STATE_IDLE]

-----------------------------------------------------------------------------
(* driver.py : PyndigoDriverDevice *)

NoDriverDevice == [name |-> None]

\* PyndigoDriverDevice.__init__
PyndigoDriverDevice_init(name) ==
    [name |-> name, properties |-> <<>>, listener_properties |-> <<>>]

\* add_text_property ... add_blob_property: the PyndigoProperty is built from
\* the arguments and _add_property stores it under its name
add_property(dev, prop_type, args) ==
    [dev EXCEPT !.properties =
         DictSet(@, args.name, PyndigoProperty_init(dev.name, prop_type, args))]

\* add_property_listener that keeps the listeners registered before
add_property_listener_Both(dev, name, func) ==
    [dev EXCEPT !.listener_properties = Append(@, <<name, func>>)]

\* PyndigoDriverDevice.add_property_listener
add_property_listener(dev, name, func) ==
    [dev EXCEPT !.listener_properties = DictSet(@, name, func)]

\* PyndigoDriverDevice.remove_property_listener
remove_property_listener(dev, name) ==
    IF DictGet(dev.listener_properties, name, None) # None
    THEN [dev EXCEPT !.listener_properties = DictPop(@, name)]
    ELSE dev

\* a callback invoked with (prop, items)
Call(func, dev, prop, items) ==
    [func |-> func, device |-> dev.name, prop |-> prop.name, items |-> items]

\* _client_asks_for_change with the hook called only when no listener is
\* registered
_client_asks_for_change_Either(dev, prop, items) ==
    LET func == DictGet(dev.listener_properties, prop.name, None)
    IN  IF func # None THEN <<Call(func, dev, prop, items)>>
        ELSE <<Call("client_asks_for_change", dev, prop, items)>>

\* PyndigoDriverDevice._client_asks_for_change: the calls it makes, in order.
\* The hook client_asks_for_change is called whether or not a listener is
\* registered.
_client_asks_for_change(dev, prop, items) ==
    LET func == DictGet(dev.listener_properties, prop.name, None)
    IN  (IF func # None THEN <<Call(func, dev, prop, items)>> ELSE <<>>)
        \o <<Call("client_asks_for_change", dev, prop, items)>>

\* the loop of set_values (and the body of set_value) over pairs of an item
\* name and a value: an item the property does not hold is skipped
RECURSIVE SetItems(_, _)
SetItems(prop, item_names_values) ==
    IF item_names_values = <<>> THEN prop
    ELSE LET item_name == Head(item_names_values)[1]
             value == Head(item_names_values)[2]
         IN  SetItems(
                 IF DictHas(prop.items, item_name)
                 THEN [prop EXCEPT !.items =
                          DictSet(@, item_name,
                              PyndigoItem_set_value(
                                  DictGet(prop.items, item_name, NoProperty),
                                  value))]
                 ELSE prop,
                 Tail(item_names_values))

\* PyndigoDriverDevice.set_values(prop, item_names_values), prop being a name
Device_set_values(dev, name, item_names_values) ==
    IF DictHas(dev.properties, name)
    THEN [dev EXCEPT !.properties =
             DictSet(@, name,
                     SetItems(DictGet(dev.properties, name, NoProperty),
                              item_names_values))]
    ELSE dev

\* PyndigoDriverDevice.set_value(prop, item_name, value)
Device_set_value(dev, name, item_name, value) ==
    Device_set_values(dev, name, <<<<item_name, value>>>>)

\* PyndigoDriverDevice.get_value(prop, item_name): the value of the item, None
\* when the device has no such property or the property no such item
Device_get_value(dev, name, item_name) ==
    IF DictHas(dev.properties, name)
    THEN LET prop == DictGet(dev.properties, name, NoProperty)
         IN  IF DictHas(prop.items, item_name)
             THEN DictGet(prop.items, item_name, NoProperty).value
             ELSE None
    ELSE None

\* the state helpers of the device by their names
StateHelpers == {"set_ok", "set_busy", "set_alert", "set_idle"}

ApplyHelper(helper, prop) ==
    IF helper = "set_ok" THEN set_ok(prop)
    ELSE IF helper = "set_busy" THEN set_busy(prop)
    ELSE IF helper = "set_alert" THEN set_alert(prop)
    ELSE set_idle(prop)

\* PyndigoDriverDevice.set_ok / set_busy / set_alert / set_idle(prop): the
\* property is looked up and the helper is called on what was found, None
\* for a name the device does not hold
Device_set_state(dev, name, helper) ==
    IF DictHas(dev.properties, name)
    THEN [dev |-> [dev EXCEPT !.properties =
                      DictSet(@, name,
                              ApplyHelper(helper,
                                  DictGet(dev.properties, name, NoProperty)))],
          raised |-> "none"]
    ELSE [dev |-> dev, raised |-> "AttributeError"]

-----------------------------------------------------------------------------
(* driver.py : PyndigoDriver *)

\* PyndigoDriver._add_driver_device
_add_driver_device(dd, device) == DictSet(dd, device.name, device)

\* PyndigoDriver.get_driver_device
get_driver_device(dd, device_name) == DictGet(dd, device_name, NoDriverDevice)

\* print(x): one write of x and a newline on sys.stdout
PrintLine(tokens) == tokens \o <<"\n">>

\* PyndigoDriver.send_property_definition for each property of a dict
RECURSIVE SendDefinitions(_)
SendDefinitions(properties) ==
    IF properties = <<>> THEN <<>>
    ELSE <<PrintLine(Property_get_def_xml(Head(properties)[2]))>>
         \o SendDefinitions(Tail(properties))

\* the loop over get_driver_devices() of the getProperties branch
RECURSIVE SendAllDevices(_)
SendAllDevices(dd) ==
    IF dd = <<>> THEN <<>>
    ELSE SendDefinitions(Head(dd)[2].properties) \o SendAllDevices(Tail(dd))

SwitchProtocol == <<"<switchProtocol version='2.0'/>", "\n">>

\* the getProperties branch answering with every device whatever the request
\* names
ReadGetProperties_All(dd, elem) ==
    (IF elem.switch = "2.0" THEN <<PrintLine(SwitchProtocol)>> ELSE <<>>)
    \o SendAllDevices(dd)

\* the getProperties branch sending the acknowledgement after the
\* definitions
ReadGetProperties_AckLast(dd, elem) ==
    (IF elem.device # None
     THEN LET d == get_driver_device(dd, elem.device)
          IN  IF d # NoDriverDevice THEN SendDefinitions(d.properties)
              ELSE <<>>
     ELSE SendAllDevices(dd))
    \o (IF elem.switch = "2.0" THEN <<PrintLine(SwitchProtocol)>> ELSE <<>>)

\* read(), branch elem.tag == "getProperties": what it prints
ReadGetProperties(dd, elem) ==
    (IF elem.switch = "2.0" THEN <<PrintLine(SwitchProtocol)>> ELSE <<>>)
    \o (IF elem.device # None
        THEN LET d == get_driver_device(dd, elem.device)
             IN  IF d # NoDriverDevice THEN SendDefinitions(d.properties)
                 ELSE <<>>
        ELSE SendAllDevices(dd))

\* the dict "it" read() builds for one child element
OneItem_NoBlobFields(prop, subelem) == <<<<"value", subelem.text>>>>

OneItem(prop, subelem) ==
    LET it == <<<<"value", subelem.text>>>>
    IN  IF is_blob(prop)
        THEN LET it2 == DictSet(DictSet(it, "size", subelem.size),
                                "format", subelem.format)
             IN  IF subelem.url # None THEN DictSet(it2, "url", subelem.url)
                 ELSE it2
        ELSE it

\* the loop over elem.findall("one" + prop.get_type()): the dict "items"
RECURSIVE ItemUpdates(_, _, _)
ItemUpdates(prop, children, items) ==
    IF children = <<>> THEN items
    ELSE LET c == Head(children)
         IN  ItemUpdates(prop, Tail(children),
                 IF c.tag = <<"one", prop.type>>
                 THEN DictSet(items, c.name, OneItem(prop, c))
                 ELSE items)

\* read(), branch elem.tag.startswith("new"): the callbacks it invokes
ReadNew(dd, elem) ==
    IF elem.device # None
    THEN LET d == get_driver_device(dd, elem.device)
         IN  IF d # NoDriverDevice
             THEN LET prop == DictGet(d.properties, elem.name, NoProperty)
                  IN  IF prop # NoProperty
                      THEN _client_asks_for_change(d, prop,
                               ItemUpdates(prop, elem.children, <<>>))
                      ELSE <<>>
             ELSE <<>>
    ELSE <<>>

\* print(elem.tag) for the end events of the children of elem
RECURSIVE PrintChildTags(_)
PrintChildTags(children) ==
    IF children = <<>> THEN <<>>
    ELSE <<PrintLine(Head(children).tag)>> \o PrintChildTags(Tail(children))

\* read(): the end events of one element and of its children:
\* r.printed is what goes to sys.stdout, r.called the callbacks invoked
ReadEvents(dd, elem) ==
    [printed |-> PrintChildTags(elem.children) \o <<PrintLine(elem.tag)>>
                 \o (IF elem.tag = <<"getProperties">>
                     THEN ReadGetProperties(dd, elem) ELSE <<>>),
     called  |-> IF elem.tag[1] = "new" THEN ReadNew(dd, elem) ELSE <<>>]

\* send_property_update that writes nothing
send_property_update_Silent(prop, msg, now) == <<>>

\* PyndigoDriver.send_property_update(prop, msg): the lines it prints
send_property_update(prop, msg, now) ==
    <<PrintLine(Property_get_set_xml(prop, msg, now))>>

\* PyndigoDriverDevice.send_property_update(prop), prop being a name
Device_send_property_update(dev, name, now) ==
    LET prop == DictGet(dev.properties, name, NoProperty)
    IN  IF prop # NoProperty THEN send_property_update(prop, None, now)
        ELSE <<>>

\* print(x) calls sys.stdout.write twice: with x, then with the end "\n";
\* the two calls of each line of a sequence of lines
RECURSIVE WriteCalls(_)
WriteCalls(lines) ==
    IF lines = <<>> THEN <<>>
    ELSE LET l == Head(lines)
         IN  <<SubSeq(l, 1, Len(l) - 1), <<l[Len(l)]>>>>
             \o WriteCalls(Tail(lines))

-----------------------------------------------------------------------------
(* The client as a state machine *)

ClientState ==
    [cd |-> client_devices, ts |-> client_timestamp, msg |-> client_message,
     fired |-> <<>>, raised |-> "none"]

\* the application's property_has_changed keeps the property it is given
RECURSIVE Keep(_, _)
Keep(h, notifications) ==
    IF notifications = <<>> THEN h
    ELSE Keep(IF Head(notifications).hook = "property_has_changed"
              THEN Head(notifications).arg ELSE h,
              Tail(notifications))

\* the threads of the driver process: the main thread, which runs
\* PyndigoDriver.read, and the thread client_ask_connect starts
Threads == {"read", "_continuous_read"}

\* PyndigoClient.__init__
Init ==
    /\ client_devices = <<>>
    /\ held = NoProperty
    /\ client_timestamp = "0"
    /\ client_message = "0"
    /\ transport = None
    /\ outbuf = <<>>
    /\ loop = "new"
    /\ fired = <<>>
    /\ raised = "none"
    /\ last = [op |-> "init"]
    /\ wire = <<>>
    /\ dispatched = <<>>
    /\ driver_devices = <<>>
    /\ printed = <<>>
    /\ called = <<>>
    /\ stdout = <<>>
    /\ threads = [t \in Threads |-> <<>>]
    /\ stdin = [buf |-> <<>>, eof |-> FALSE]
    /\ reader = "init"

\* connection_made that keeps the transport and writes no getProperties
ConnectionMade_Silent ==
    /\ loop = "new"
    /\ Len(outbuf) < MaxOut
    /\ transport' = "transport"
    /\ outbuf' = outbuf
    /\ loop' = "running"
    /\ fired' = <<>>
    /\ raised' = "none"
    /\ last' = [op |-> "connection_made"]
    /\ UNCHANGED <<client_devices, held, client_timestamp, client_message>>
    /\ UNCHANGED <<streamVars, driverVars, threadVars>>

\* PyndigoClient.connection_made
ConnectionMade ==
    /\ loop = "new"
    /\ Len(outbuf) < MaxOut
    /\ transport' = "transport"
    /\ outbuf' = writeMsg("transport", outbuf, DumpGetProperties(ClientName))
    /\ loop' = "running"
    /\ fired' = <<>>
    /\ raised' = "none"
    /\ last' = [op |-> "connection_made"]
    /\ UNCHANGED <<client_devices, held, client_timestamp, client_message>>
    /\ UNCHANGED <<streamVars, driverVars, threadVars>>

\* PyndigoClient.data_received.  An exception that escapes it is fatal to the
\* asyncio transport, which closes and calls connection_lost.
DataReceived(chunk) ==
    /\ loop = "running"
    /\ LET st == parse_messages(ClientState, chunk)
       IN  /\ client_devices' = st.cd
           /\ client_timestamp' = st.ts
           /\ client_message' = st.msg
           /\ fired' = st.fired
           /\ held' = Keep(held, st.fired)
           /\ raised' = st.raised
           /\ loop' = IF st.raised # "none" THEN "stopped" ELSE loop
    /\ last' = [op |-> "data_received", chunk |-> chunk]
    /\ UNCHANGED <<transport, outbuf, streamVars, driverVars, threadVars>>

\* PyndigoClient.connection_lost
ConnectionLost ==
    /\ loop = "running"
    /\ loop' = "stopped"
    /\ fired' = <<>>
    /\ raised' = "none"
    /\ last' = [op |-> "connection_lost"]
    /\ UNCHANGED <<client_devices, held, client_timestamp, client_message,
                   transport, outbuf, streamVars, driverVars, threadVars>>

\* PyndigoClient.propertyUpdate, called by the application
PropertyUpdate(target, itemValues) ==
    /\ Len(outbuf) < MaxOut
    /\ target.form = "handle" => held # NoProperty
    /\ LET r == propertyUpdate(ClientState, transport, outbuf, held, target,
                               itemValues)
       IN  /\ outbuf' = r.out
           /\ raised' = r.raised
    /\ fired' = <<>>
    /\ last' = [op |-> "propertyUpdate", target |-> target,
                itemValues |-> itemValues]
    /\ UNCHANGED <<client_devices, held, client_timestamp, client_message,
                   transport, loop, streamVars, driverVars, threadVars>>

\* the read loop: the remote peer's stream arrives on a connection
Next ==
    \/ ConnectionMade
    \/ \E chunk \in Chunks : DataReceived(chunk)
    \/ ConnectionLost

Spec == Init /\ [][Next]_vars

\* what the peer sends while the application issues requests: announcements
\* and deletions, one object per read
RequestChunks == { <<m>> : m \in DefMessages \cup DeleteMessages }

\* the application's requests alongside the read loop
NextRequests ==
    \/ ConnectionMade
    \/ \E chunk \in RequestChunks : DataReceived(chunk)
    \/ ConnectionLost
    \/ \E target \in Targets, itemValues \in ItemValues :
           PropertyUpdate(target, itemValues)

SpecRequests == Init /\ [][NextRequests]_vars

-----------------------------------------------------------------------------
(* The client on a byte stream *)

\* the peer writes the text of one more object
PeerSends(o) ==
    /\ loop = "running"
    /\ Len(wire) + Len(Dumps(o)) <= MaxWire
    /\ wire' = wire \o Dumps(o)
    /\ UNCHANGED <<client_devices, held, client_timestamp, client_message,
                   transport, outbuf, loop, fired, raised, last, dispatched,
                   driverVars, threadVars>>

\* a stray byte gets into the stream
PeerSendsJunk ==
    /\ loop = "running"
    /\ Len(wire) < MaxWire
    /\ wire' = Append(wire, Junk)
    /\ UNCHANGED <<client_devices, held, client_timestamp, client_message,
                   transport, outbuf, loop, fired, raised, last, dispatched,
                   driverVars, threadVars>>

\* PyndigoClient.data_received(data), data being the first k bytes the
\* transport has.  An exception that escapes it is fatal to the asyncio
\* transport, which closes and calls connection_lost.
DataReceivedBytes(k) ==
    /\ loop = "running"
    /\ k \in 1..Len(wire)
    /\ LET data == SubSeq(wire, 1, k)
           y == decode(data)
           r == IF y.ok THEN parse_decoded(ClientState, y.val.e, <<>>)
                ELSE [st |-> [ClientState EXCEPT !.raised = "JSONDecodeError"],
                      done |-> <<>>]
       IN  /\ client_devices' = r.st.cd
           /\ client_timestamp' = r.st.ts
           /\ client_message' = r.st.msg
           /\ fired' = r.st.fired
           /\ held' = Keep(held, r.st.fired)
           /\ raised' = r.st.raised
           /\ loop' = IF r.st.raised # "none" THEN "stopped" ELSE loop
           /\ dispatched' = r.done
           /\ last' = [op |-> "data_received", data |-> data]
    /\ wire' = SubSeq(wire, k + 1, Len(wire))
    /\ UNCHANGED <<transport, outbuf, driverVars, threadVars>>

NextStream ==
    \/ ConnectionMade
    \/ \E o \in WireObjects : PeerSends(o)
    \/ PeerSendsJunk
    \/ \E k \in 1..MaxWire : DataReceivedBytes(k)
    \/ ConnectionLost

SpecStream == Init /\ [][NextStream]_vars

-----------------------------------------------------------------------------
(* The driver as a state machine *)

\* the properties the devices of the driver create, with their items
DriverProperties ==
    { [type |-> TYPE_TEXT,
       args |-> DefJson("D1", "P1", PERM_RW, <<>>),
       items |-> <<ItemJson("I1", "v1"), ItemJson("I2", "v1")>>],
      [type |-> TYPE_SWITCH,
       args |-> DefJson("D1", "P2", PERM_RW, <<>>),
       items |-> <<ItemJson("I1", "Off"), ItemJson("I2", "On")>>],
      [type |-> TYPE_BLOB,
       args |-> DefJson("D2", "P1", PERM_RW, <<>>),
       items |-> <<ItemJson("I1", "v1")>>],
      [type |-> TYPE_LIGHT,
       args |-> DefJson("D2", "P2", PERM_RO, <<>>),
       items |-> <<ItemJson("I1", "Ok")>>] }

\* the functions a device registers as listeners
Listeners == {"on_change", "on_other"}

\* a child element one<Kind> of a request
One(kind, name, text) ==
    [tag |-> <<"one", kind>>, name |-> name, text |-> text,
     size |-> None, format |-> None, url |-> None]

OneBLOB(name, text, size, format, url) ==
    [tag |-> <<"one", TYPE_BLOB>>, name |-> name, text |-> text,
     size |-> size, format |-> format, url |-> url]

Elem(tag, device, name, children) ==
    [tag |-> tag, device |-> device, name |-> name, switch |-> None,
     children |-> children]

NewTag(kind) == <<"new", kind, "Vector">>

\* the requests for a change a client sends: for properties the devices may
\* hold (one with a child of another kind, one under the tag of another
\* kind), for a device or a property nobody holds, without a device
NewElements ==
    { Elem(NewTag(TYPE_TEXT), "D1", "P1", <<One(TYPE_TEXT, "I1", "v2")>>),
      Elem(NewTag(TYPE_TEXT), "D1", "P1",
           <<One(TYPE_TEXT, "I2", "v3"), One(TYPE_TEXT, "I1", "v2")>>),
      Elem(NewTag(TYPE_TEXT), "D1", "P1",
           <<One(TYPE_TEXT, "I1", "v2"), One(TYPE_SWITCH, "I2", "On")>>),
      Elem(NewTag(TYPE_SWITCH), "D1", "P2", <<One(TYPE_SWITCH, "I1", "On")>>),
      Elem(NewTag(TYPE_BLOB), "D2", "P1",
           <<OneBLOB("I1", "QUJD", "3", ".fits", None)>>),
      Elem(NewTag(TYPE_BLOB), "D2", "P1",
           <<OneBLOB("I1", None, "3", ".fits", "http://h/b")>>),
      Elem(NewTag(TYPE_TEXT), "D2", "P1", <<One(TYPE_TEXT, "I1", "v2")>>),
      Elem(NewTag(TYPE_TEXT), "D3", "P1", <<One(TYPE_TEXT, "I1", "v2")>>),
      Elem(NewTag(TYPE_TEXT), "D1", "P9", <<One(TYPE_TEXT, "I1", "v2")>>),
      Elem(NewTag(TYPE_TEXT), None, "P1", <<One(TYPE_TEXT, "I1", "v2")>>) }

\* the getProperties requests: for every device, for one device, for a
\* device nobody holds, with and without the protocol switch, and with a
\* switch to a version other than 2.0
GetPropertiesElements ==
    { [Elem(<<"getProperties">>, d, None, <<>>) EXCEPT !.switch = sw]
        : d \in {None, "D1", "D2", "D3"}, sw \in {None} }
    \cup { [Elem(<<"getProperties">>, d, None, <<>>) EXCEPT !.switch = "2.0"]
        : d \in {None, "D1"} }
    \cup { [Elem(<<"getProperties">>, None, None, <<>>) EXCEPT !.switch = "1.0"] }

\* an element the driver has no branch for
OtherElements == { Elem(<<"enableBLOB">>, "D1", None, <<>>) }

Elements == NewElements \cup GetPropertiesElements \cup OtherElements

DriverStep(op) ==
    /\ last' = op
    /\ raised' = "none"
    /\ UNCHANGED <<client_devices, held, client_timestamp, client_message,
                   transport, outbuf, loop, fired, streamVars, threadVars>>

\* a device is constructed: PyndigoDriverDevice.__init__
NewDriverDevice(name) ==
    /\ ~DictHas(driver_devices, name)
    /\ driver_devices' =
           _add_driver_device(driver_devices, PyndigoDriverDevice_init(name))
    /\ printed' = <<>>
    /\ called' = <<>>
    /\ DriverStep([op |-> "new_device", name |-> name])

\* a device creates one of its properties and the items of it:
\* add_<kind>_property followed by the add_<kind> calls
AddProperty(p) ==
    /\ DictHas(driver_devices, p.args.device)
    /\ LET d == get_driver_device(driver_devices, p.args.device)
           d1 == add_property(d, p.type, p.args)
           prop == add_items(DictGet(d1.properties, p.args.name, NoProperty),
                             p.items)
       IN  /\ ~DictHas(d.properties, p.args.name)
           /\ driver_devices' =
                  DictSet(driver_devices, d.name,
                          [d1 EXCEPT !.properties = DictSet(@, prop.name, prop)])
    /\ printed' = <<>>
    /\ called' = <<>>
    /\ DriverStep([op |-> "add_property", device |-> p.args.device,
                   name |-> p.args.name])

\* a device registers a listener: add_property_listener.  The record of the
\* call keeps the listener the name had when the call was made.
AddPropertyListener(device, name, func) ==
    /\ DictHas(driver_devices, device)
    /\ driver_devices' =
           DictSet(driver_devices, device,
                   add_property_listener(
                       get_driver_device(driver_devices, device), name, func))
    /\ printed' = <<>>
    /\ called' = <<>>
    /\ DriverStep([op |-> "add_property_listener", device |-> device,
                   name |-> name, func |-> func,
                   had |-> DictGet(get_driver_device(driver_devices, device)
                                       .listener_properties, name, None)])

\* a device removes a listener: remove_property_listener
RemovePropertyListener(device, name) ==
    /\ DictHas(driver_devices, device)
    /\ driver_devices' =
           DictSet(driver_devices, device,
                   remove_property_listener(
                       get_driver_device(driver_devices, device), name))
    /\ printed' = <<>>
    /\ called' = <<>>
    /\ DriverStep([op |-> "remove_property_listener", device |-> device,
                   name |-> name])

\* the items of prop with the values a request asks for
RECURSIVE ApplyItems(_, _)
ApplyItems(prop, children) ==
    IF children = <<>> THEN prop
    ELSE LET c == Head(children)
         IN  ApplyItems(
                 IF DictHas(prop.items, c.name)
                 THEN [prop EXCEPT !.items =
                          DictSet(@, c.name,
                                  [DictGet(prop.items, c.name, NoProperty)
                                       EXCEPT !.value = c.text])]
                 ELSE prop,
                 Tail(children))

\* a read loop that writes the requested values into the property it
\* resolves
ReadElement_Applies(elem) ==
    /\ LET r == ReadEvents(driver_devices, elem)
       IN  /\ printed' = r.printed
           /\ called' = r.called
           /\ driver_devices' =
                  IF r.called = <<>> THEN driver_devices
                  ELSE LET d == get_driver_device(driver_devices, elem.device)
                           prop == DictGet(d.properties, elem.name, NoProperty)
                       IN  DictSet(driver_devices, d.name,
                               [d EXCEPT !.properties =
                                   DictSet(@, prop.name,
                                           ApplyItems(prop, elem.children))])
    /\ DriverStep([op |-> "read", elem |-> elem])

\* PyndigoDriver.read: the end events of one element of the input.  The
\* listeners and the hook client_asks_for_change do nothing here.
ReadElement(elem) ==
    /\ LET r == ReadEvents(driver_devices, elem)
       IN  /\ printed' = r.printed
           /\ called' = r.called
    /\ UNCHANGED driver_devices
    /\ DriverStep([op |-> "read", elem |-> elem])

NextDriver ==
    \/ \E name \in DeviceNames : NewDriverDevice(name)
    \/ \E p \in DriverProperties : AddProperty(p)
    \/ \E d \in DeviceNames, f \in Listeners : AddPropertyListener(d, "P1", f)
    \/ \E d \in DeviceNames : RemovePropertyListener(d, "P1")
    \/ \E elem \in Elements : ReadElement(elem)

SpecDriver == Init /\ [][NextDriver]_vars

-----------------------------------------------------------------------------
(* The logic of a device: it changes its model and sends updates *)

\* what get_timestamp() returns
Timestamps == {"T1"}

\* the properties the devices of this machine create
DeviceProperties ==
    { p \in DriverProperties : p.args.name = "P1" }

\* the values the devices set: a text and the bytes of "ABC"
Values == { Str("v2"), Bytes(<<65, 66, 67>>) }

\* the property and item names the devices use, P9 and I9 being names
\* nothing holds
DevicePropNames == {"P1", "P9"}
DeviceItemNames == {"I1", "I9"}

\* a call on a device that may raise
DriverCall(op, exc) ==
    /\ last' = op
    /\ raised' = exc
    /\ UNCHANGED <<client_devices, held, client_timestamp, client_message,
                   transport, outbuf, loop, fired, streamVars, threadVars>>

\* the device logic calls set_value
SetValue(device, name, item_name, value) ==
    /\ DictHas(driver_devices, device)
    /\ driver_devices' =
           DictSet(driver_devices, device,
                   Device_set_value(get_driver_device(driver_devices, device),
                                    name, item_name, value))
    /\ printed' = <<>>
    /\ called' = <<>>
    /\ DriverCall([op |-> "set_value", device |-> device, name |-> name,
                   item_name |-> item_name, value |-> value], "none")

\* the device logic calls set_values
SetValues(device, name, item_names_values) ==
    /\ DictHas(driver_devices, device)
    /\ driver_devices' =
           DictSet(driver_devices, device,
                   Device_set_values(get_driver_device(driver_devices, device),
                                     name, item_names_values))
    /\ printed' = <<>>
    /\ called' = <<>>
    /\ DriverCall([op |-> "set_values", device |-> device, name |-> name,
                   item_names_values |-> item_names_values], "none")

\* the device logic calls set_ok, set_busy, set_alert or set_idle
SetState(device, name, helper) ==
    /\ DictHas(driver_devices, device)
    /\ LET r == Device_set_state(get_driver_device(driver_devices, device),
                                 name, helper)
       IN  /\ driver_devices' = DictSet(driver_devices, device, r.dev)
           /\ printed' = <<>>
           /\ called' = <<>>
           /\ DriverCall([op |-> "set_state", device |-> device,
                          name |-> name, helper |-> helper], r.raised)

\* the device logic calls get_value
GetValue(device, name, item_name) ==
    /\ DictHas(driver_devices, device)
    /\ printed' = <<>>
    /\ called' = <<>>
    /\ UNCHANGED driver_devices
    /\ DriverCall([op |-> "get_value", device |-> device, name |-> name,
                   item_name |-> item_name,
                   result |-> Device_get_value(
                                  get_driver_device(driver_devices, device),
                                  name, item_name)], "none")

\* the device logic calls send_property_update
SendPropertyUpdate(device, name, now) ==
    /\ DictHas(driver_devices, device)
    /\ printed' = Device_send_property_update(
                      get_driver_device(driver_devices, device), name, now)
    /\ called' = <<>>
    /\ UNCHANGED driver_devices
    /\ DriverCall([op |-> "send_property_update", device |-> device,
                   name |-> name, now |-> now], "none")

NextDevice ==
    \/ \E name \in DeviceNames : NewDriverDevice(name)
    \/ \E p \in DeviceProperties : AddProperty(p)
    \/ \E d \in DeviceNames, n \in DevicePropNames, i \in DeviceItemNames,
          v \in Values : SetValue(d, n, i, v)
    \/ \E n \in DevicePropNames :
           SetValues("D1", n, <<<<"I2", Str("v3")>>, <<"I9", Str("v3")>>,
                             <<"I1", Str("v3")>>>>)
    \/ \E n \in DevicePropNames, i \in DeviceItemNames : GetValue("D1", n, i)
    \/ \E d \in DeviceNames, n \in DevicePropNames, h \in StateHelpers :
           SetState(d, n, h)
    \/ \E d \in DeviceNames, n \in DevicePropNames, now \in Timestamps :
           SendPropertyUpdate(d, n, now)

SpecDevice == Init /\ [][NextDevice]_vars

-----------------------------------------------------------------------------
(* A device that publishes binary data *)

\* the bytes the device reads: the smallest, a letter, the largest
ByteValues == {0, 65, 255}

RECURSIVE ByteStringsOfLen(_)
ByteStringsOfLen(n) ==
    IF n = 0 THEN { <<>> }
    ELSE { Append(b, v) : b \in ByteStringsOfLen(n - 1), v \in ByteValues }

ByteStrings == UNION { ByteStringsOfLen(n) : n \in 0..MaxBytes }

\* the base64 texts the device sets as they are: of the bytes 255, 0 and of
\* the byte 65
BlobTexts == { "/wA=", "QQ==" }

NextBlob ==
    \/ NewDriverDevice("D2")
    \/ \E p \in { q \in DriverProperties : q.type = TYPE_BLOB } :
           AddProperty(p)
    \/ \E b \in ByteStrings : SetValue("D2", "P1", "I1", Bytes(b))
    \/ \E s \in BlobTexts : SetValue("D2", "P1", "I1", Str(s))
    \/ \E now \in Timestamps : SendPropertyUpdate("D2", "P1", now)

SpecBlob == Init /\ [][NextBlob]_vars

-----------------------------------------------------------------------------
(* The property model on its own: properties that hold items, built with   *)
(* the constructors and add_<kind>, and the methods of common.py applied to *)
(* them                                                                    *)

\* the properties built: a Text property with two items and a Light property
\* whose constructor is given ReadWrite and a timeout
ModelProperties ==
    { [type |-> TYPE_TEXT,
       args |-> DefJson("D1", "P1", PERM_RW, <<>>),
       items |-> <<ItemJson("I1", "v1"), ItemJson("I2", "v1")>>],
      [type |-> TYPE_LIGHT,
       args |-> DefJson("D1", "P2", PERM_RW, <<>>),
       items |-> <<ItemJson("I1", "Ok")>>] }

\* the payloads of set messages: naming one item, both items in another
\* order, no item, an item the property does not hold, and one without the
\* key state
ModelSetJsons ==
    { SetJson("D1", "P", <<ItemJson("I1", "v2")>>),
      SetJson("D1", "P", <<ItemJson("I2", "v3"), ItemJson("I1", "v2")>>),
      SetJson("D1", "P", <<>>),
      SetJson("D1", "P", <<ItemJson("I9", "v2")>>),
      [SetJson("D1", "P", <<>>) EXCEPT !.state = None] }

\* PyndigoProperty._update(_decoded_json) on a property of the model
Update(device, name, json) ==
    /\ DictHas(driver_devices, device)
    /\ DictHas(get_driver_device(driver_devices, device).properties, name)
    /\ LET d == get_driver_device(driver_devices, device)
           r == PyndigoProperty_update(DictGet(d.properties, name, NoProperty),
                                       json)
       IN  /\ driver_devices' =
                  DictSet(driver_devices, device,
                          [d EXCEPT !.properties = DictSet(@, name, r.prop)])
           /\ printed' = <<>>
           /\ called' = <<>>
           /\ DriverCall([op |-> "_update", device |-> device, name |-> name,
                          json |-> json], r.raised)

NextModel ==
    \/ NewDriverDevice("D1")
    \/ \E p \in ModelProperties : AddProperty(p)
    \/ \E n \in PropNames, json \in ModelSetJsons : Update("D1", n, json)
    \/ \E n \in PropNames, h \in StateHelpers : SetState("D1", n, h)
    \/ \E v \in Values : SetValue("D1", "P1", "I1", v)

SpecModel == Init /\ [][NextModel]_vars

-----------------------------------------------------------------------------
(* The threads of a driver process and sys.stdout *)

\* the requests the main thread reads while the other thread runs
ThreadElements ==
    { Elem(<<"getProperties">>, "D1", None, <<>>),
      Elem(NewTag(TYPE_TEXT), "D1", "P1", <<One(TYPE_TEXT, "I1", "v2")>>) }

ThreadStep ==
    UNCHANGED <<client_devices, held, client_timestamp, client_message,
                transport, outbuf, loop, fired, raised, last, streamVars,
                driverVars, inputVars>>

\* the main thread is in PyndigoDriver.read and gets the end event of one
\* element: the print calls of that iteration are ahead of it
ThreadRead(elem) ==
    /\ threads["read"] = <<>>
    /\ threads' = [threads EXCEPT !["read"] =
                      WriteCalls(ReadEvents(driver_devices, elem).printed)]
    /\ UNCHANGED stdout
    /\ ThreadStep

\* the thread of the device is in _continuous_read and calls
\* send_property_update: the print call of _send_message_to_client is ahead
\* of it
ThreadUpdate(device, name, now) ==
    /\ threads["_continuous_read"] = <<>>
    /\ DictHas(driver_devices, device)
    /\ threads' = [threads EXCEPT !["_continuous_read"] =
                      WriteCalls(Device_send_property_update(
                          get_driver_device(driver_devices, device), name,
                          now))]
    /\ UNCHANGED stdout
    /\ ThreadStep

\* a thread makes its next write call on sys.stdout.  The interpreter may
\* switch threads between the two write calls of one print: the text of a
\* message larger than the buffer of sys.stdout is written through, which
\* releases the interpreter lock.
Write(t) ==
    /\ threads[t] # <<>>
    /\ Len(stdout) < MaxWrites
    /\ stdout' = Append(stdout, [thread |-> t, text |-> Head(threads[t])])
    /\ threads' = [threads EXCEPT ![t] = Tail(@)]
    /\ ThreadStep

\* the process runs one device, D1
NextThreads ==
    \/ NewDriverDevice("D1")
    \/ \E p \in { q \in DriverProperties : q.args.device = "D1" } :
           AddProperty(p)
    \/ \E elem \in ThreadElements : ThreadRead(elem)
    \/ \E n \in PropNames, now \in Timestamps : ThreadUpdate("D1", n, now)
    \/ \E t \in Threads : Write(t)

SpecThreads == Init /\ [][NextThreads]_vars

-----------------------------------------------------------------------------
(* The read loops and the streams they read: sys.stdin of the driver, the  *)
(* connection of the client                                                *)

\* the elements a peer writes to sys.stdin
StdinElements ==
    { Elem(<<"getProperties">>, None, None, <<>>),
      Elem(NewTag(TYPE_TEXT), "D1", "P1", <<One(TYPE_TEXT, "I1", "v2")>>) }

\* what the connection delivers to the client
LoopChunks == { <<m>> : m \in MessageMessages }

ClientUnchanged ==
    UNCHANGED <<client_devices, held, client_timestamp, client_message,
                transport, outbuf, loop, fired, streamVars>>

\* the peer writes one element to sys.stdin
Feed(elem) ==
    /\ ~stdin.eof
    /\ Len(stdin.buf) < MaxStdin
    /\ stdin' = [stdin EXCEPT !.buf = Append(@, elem)]
    /\ UNCHANGED <<reader, raised, last, driverVars, stdout, threads>>
    /\ ClientUnchanged

\* the peer closes sys.stdin
CloseStdin ==
    /\ ~stdin.eof
    /\ stdin' = [stdin EXCEPT !.eof = TRUE]
    /\ UNCHANGED <<reader, raised, last, driverVars, stdout, threads>>
    /\ ClientUnchanged

\* the driver calls read()
StartRead ==
    /\ reader = "init"
    /\ reader' = "read"
    /\ UNCHANGED <<stdin, raised, last, driverVars, stdout, threads>>
    /\ ClientUnchanged

\* read(): the loop "for line in sys.stdin" never gets to its end
ReadReturns_Waits ==
    /\ reader = "read"
    /\ stdin.buf = <<>>
    /\ stdin.eof
    /\ UNCHANGED vars

\* read(): one iteration of the loop "for line in sys.stdin" with the
\* element it gets
ReadNext ==
    /\ reader = "read"
    /\ stdin.buf # <<>>
    /\ LET r == ReadEvents(driver_devices, Head(stdin.buf))
       IN  /\ printed' = r.printed
           /\ called' = r.called
    /\ stdin' = [stdin EXCEPT !.buf = Tail(@)]
    /\ last' = [op |-> "read", elem |-> Head(stdin.buf)]
    /\ raised' = "none"
    /\ UNCHANGED <<reader, driver_devices, stdout, threads>>
    /\ ClientUnchanged

\* read(): sys.stdin is at its end, the loop "for line in sys.stdin" is over
\* and read() returns
ReadReturns ==
    /\ reader = "read"
    /\ stdin.buf = <<>>
    /\ stdin.eof
    /\ reader' = "returned"
    /\ UNCHANGED <<stdin, raised, last, driverVars, stdout, threads>>
    /\ ClientUnchanged

NextLoops ==
    \/ NewDriverDevice("D1")
    \/ \E p \in { q \in DriverProperties : q.args.device = "D1" } :
           AddProperty(p)
    \/ \E elem \in StdinElements : Feed(elem)
    \/ CloseStdin
    \/ StartRead
    \/ ReadNext
    \/ ReadReturns
    \/ ConnectionMade
    \/ \E chunk \in LoopChunks : DataReceived(chunk)
    \/ ConnectionLost

\* the thread that runs read() is scheduled as long as it has something to
\* do: an element to read, or the end of the input to see
SpecLoops ==
    /\ Init
    /\ [][NextLoops]_vars
    /\ WF_vars(ReadNext)
    /\ WF_vars(ReadReturns)

-----------------------------------------------------------------------------
(* Vocabulary of the properties below *)

\* the last call was data_received with the one-object list <<m>>
ReadOne(l, m) == l = [op |-> "data_received", chunk |-> <<m>>]

\* the last call was data_received with the two-object list <<m1, m2>>
ReadTwo(l, m1, m2) == l = [op |-> "data_received", chunk |-> <<m1, m2>>]

\* registry cd has device D
Known(cd, D) == DictHas(cd, D)

\* registry cd has device D and D's property map has P
Holds(cd, D, P) ==
    /\ Known(cd, D)
    /\ DictHas(DictGet(cd, D, NoDevice).properties, P)

IsDelete(m) == m.key = <<"deleteProperty">>

PayloadItemNames(value) == { value.items[i].name : i \in 1..Len(value.items) }

-----------------------------------------------------------------------------
(* C1 *)

\* After a def message for (D, P) the registry has D, D has P of the kind of
\* the key, P has the payload's items with their values
Defined(cd, m) ==
    /\ Holds(cd, m.value.device, m.value.name)
    /\ LET prop == get_property(DictGet(cd, m.value.device, NoDevice),
                                m.value.name)
       IN  /\ prop.type = m.key[2]
           /\ DictKeys(prop.items) = PayloadItemNames(m.value)
           /\ \A i \in 1..Len(m.value.items) :
                  DictGet(prop.items, m.value.items[i].name, NoProperty).value
                      = m.value.items[i].value

\* C1: when the client processes a def<Kind>Vector message for a device D and
\* a property P that D does not hold, afterwards the registry has D, D has P
\* with the kind of the key and one item per payload item with the payload
\* value, and property_has_changed fired exactly once, for P.
C1_DefineRegistersProperty ==
    [][\A m \in DefMessages :
          (ReadOne(last', m)
           /\ ~Holds(client_devices, m.value.device, m.value.name))
          => /\ Defined(client_devices', m)
             /\ Len(fired') = 1
             /\ fired'[1].hook = "property_has_changed"
             /\ fired'[1].arg = get_property(
                    DictGet(client_devices', m.value.device, NoDevice),
                    m.value.name)]_vars

-----------------------------------------------------------------------------
(* C2 *)

\* C2: after a stream in which a define for (D, P, I) is followed by a set for
\* (D, P) carrying I = v, device D exists with property P whose item I is v.
C2_DefineThenSet ==
    \A m1 \in DefMessages, m2 \in SetMessages :
        (/\ ReadTwo(last, m1, m2)
         /\ m1.value.device = m2.value.device
         /\ m1.value.name = m2.value.name
         /\ PayloadItemNames(m2.value) \subseteq PayloadItemNames(m1.value))
        => /\ Holds(client_devices, m2.value.device, m2.value.name)
           /\ LET prop == get_property(
                      DictGet(client_devices, m2.value.device, NoDevice),
                      m2.value.name)
              IN  \A i \in 1..Len(m2.value.items) :
                      /\ DictHas(prop.items, m2.value.items[i].name)
                      /\ DictGet(prop.items, m2.value.items[i].name,
                                 NoProperty).value = m2.value.items[i].value

-----------------------------------------------------------------------------
(* C3 *)

\* C3: a second define for a device and property name the client was already
\* given is ignored: the registry is as before the second define and no
\* property_has_changed fires for it.
C3_SecondDefineIgnored ==
    [][\A m1 \in DefMessages, m2 \in DefMessages :
          (/\ ReadOne(last, m1)
           /\ ReadOne(last', m2)
           /\ m1.value.device = m2.value.device
           /\ m1.value.name = m2.value.name)
          => /\ client_devices' = client_devices
             /\ fired' = <<>>]_vars

-----------------------------------------------------------------------------
(* C4 *)

\* every message of the list is a set*Vector for a device the registry lacks
AllSetUnknown(cd, chunk) ==
    \A i \in 1..Len(chunk) :
        /\ chunk[i] \in SetMessages
        /\ ~Known(cd, chunk[i].value.device)

\* C4: a set*Vector message naming a device that is not in the registry is a
\* no-op: devices, properties and items are unchanged, no notification fires
\* and nothing is raised.
C4_SetUnknownDeviceNoOp ==
    [][(last'.op = "data_received" /\ AllSetUnknown(client_devices, last'.chunk))
          => /\ client_devices' = client_devices
             /\ client_timestamp' = client_timestamp
             /\ client_message' = client_message
             /\ held' = held
             /\ fired' = <<>>
             /\ raised' = "none"
             /\ loop' = loop]_vars

\* a set for D2 was read while the registry had D1 only
C4_Witness ==
    /\ last.op = "data_received"
    /\ AllSetUnknown(client_devices, last.chunk)
    /\ DictKeys(client_devices) = {"D1"}
    /\ fired = <<>>

-----------------------------------------------------------------------------
(* C5 *)

\* C5: an inbound message for a known device and an unknown property name is
\* dropped silently: nothing is raised, the registry is unchanged, and the
\* message that follows it in the stream is still processed.
C5_UnknownPropertyDropped ==
    [][\A m \in SetMessages :
          (/\ Known(client_devices, m.value.device)
           /\ ~Holds(client_devices, m.value.device, m.value.name))
          => /\ ReadOne(last', m)
                 => /\ raised' = "none"
                    /\ client_devices' = client_devices
                    /\ loop' = loop
             /\ ReadTwo(last', m, Msg(<<"message">>, MessageJson(None)))
                 => /\ raised' = "none"
                    /\ client_message' = MessageJson(None).message]_vars

-----------------------------------------------------------------------------
(* C6 *)

IsUpdate(l) == l.op = "propertyUpdate"

\* C6: propertyUpdate on a property whose permission is ReadOnly, every Light
\* property included, writes nothing: the outbound buffer is the same before
\* and after the call.
C6_ReadOnlyWritesNothing ==
    [][(/\ IsUpdate(last')
        /\ last'.target.form = "handle"
        /\ (held.perm = PERM_RO \/ held.type = TYPE_LIGHT))
          => outbuf' = outbuf]_vars

\* a connected client was asked to change the Light property it holds
C6_Witness ==
    /\ IsUpdate(last)
    /\ last.target.form = "handle"
    /\ last.itemValues # <<>>
    /\ held.type = TYPE_LIGHT
    /\ transport # None
    /\ loop = "running"
    /\ raised = "none"

-----------------------------------------------------------------------------
(* C7 *)

Connected == transport # None /\ loop = "running"

\* w is the text of {"new"+Kind+"Vector": {device, name, items}} for prop
\* with one {name, value} entry per entry of itemValues, and then "\n\n"
IsNewVectorText(w, prop, itemValues) ==
    LET n == Len(itemValues)
    IN  /\ Len(w) = 11 + 6 * n + 4
        /\ SubSeq(w, 1, 5) = <<"{", "new", prop.type, "Vector", "{">>
        /\ SubSeq(w, 6, 11) = <<"device", prop.device, "name", prop.name,
                                "items", "[">>
        /\ \A i \in 1..n :
               SubSeq(w, 6 + 6 * i, 11 + 6 * i)
                   = <<"{", "name", itemValues[i][1],
                       "value", itemValues[i][2], "}">>
        /\ SubSeq(w, 12 + 6 * n, 14 + 6 * n) = <<"]", "}", "}">>
        /\ w[15 + 6 * n] = "\n\n"

\* C7: on a connected client, propertyUpdate on a property that is not
\* ReadOnly writes exactly one message, keyed "new"+Kind+"Vector", with the
\* property's device and name and one {name, value} entry per entry of the
\* item mapping, followed by the blank-line separator.
C7_UpdateWritesOneMessage ==
    [][(/\ IsUpdate(last')
        /\ last'.target.form = "handle"
        /\ Connected
        /\ held.perm # PERM_RO)
          => /\ Len(outbuf') = Len(outbuf) + 1
             /\ SubSeq(outbuf', 1, Len(outbuf)) = outbuf
             /\ IsNewVectorText(outbuf'[Len(outbuf')], held, last'.itemValues)]_vars

\* a connected client wrote a two-item request for the property it holds
C7_Witness ==
    /\ IsUpdate(last)
    /\ last.target.form = "handle"
    /\ Len(last.itemValues) = 2
    /\ Connected
    /\ held.perm = PERM_RW
    /\ Len(outbuf) = 2
    /\ outbuf[2][2] = "new"

-----------------------------------------------------------------------------
(* C8 *)

\* C8: after a deleteProperty message that names a known device and no
\* property, the device is no longer in the registry and a lookup of it
\* gives nothing.
C8_DeleteDevice ==
    [][\A m \in DeleteMessages :
          (/\ ReadOne(last', m)
           /\ m.value.name = None
           /\ Known(client_devices, m.value.device))
          => /\ ~Known(client_devices', m.value.device)
             /\ DictGet(client_devices', m.value.device, NoDevice) = NoDevice
             /\ \A i \in 1..Len(client_devices') :
                    client_devices'[i][2].name # m.value.device]_vars

\* D1 was deleted as a whole while D2 stays
C8_Witness ==
    /\ ReadOne(last, Msg(<<"deleteProperty">>, DeleteJson("D1", None)))
    /\ DictKeys(client_devices) = {"D2"}
    /\ {client_timestamp, client_message} = {"bye", "t3"}

-----------------------------------------------------------------------------
(* C9 *)

\* device record d without property P
WithoutProperty(d, P) == [d EXCEPT !.properties = DictPop(@, P)]

-----------------------------------------------------------------------------
(* C10 *)

\* C10: for every property a deleteProperty message removes, the one it names
\* or each property of the device it deletes, property_has_been_deleted fires
\* for that property.
C10_DeletionNotified ==
    [][\A m1 \in DefMessages, m2 \in DeleteMessages :
          (/\ ReadOne(last, m1)
           /\ ReadOne(last', m2)
           /\ m2.value.device = m1.value.device
           /\ m2.value.name \in {None, m1.value.name})
          => \E i \in 1..Len(fired') :
                 /\ fired'[i].hook = "property_has_been_deleted"
                 /\ fired'[i].arg.name = m1.value.name]_vars

-----------------------------------------------------------------------------
(* C11 *)

\* C11: for every inbound message object: if it carries a device name and
\* that device is in the registry, the device's message and timestamp are
\* set and exactly the device-message notification fires; in every other
\* case (no device name, or a device name that is not in the registry) the
\* client's own message and timestamp are set and exactly the client-message
\* notification fires.
C11_MessageDispatch ==
    [][\A m \in MessageMessages :
          ReadOne(last', m)
          => IF m.value.device # None /\ Known(client_devices, m.value.device)
             THEN /\ Known(client_devices', m.value.device)
                  /\ LET dev == DictGet(client_devices', m.value.device, NoDevice)
                     IN  /\ dev.message = m.value.message
                         /\ dev.timestamp = m.value.timestamp
                  /\ fired' = <<Fire("device_message_arrived", m.value.device)>>
             ELSE /\ client_message' = m.value.message
                  /\ client_timestamp' = m.value.timestamp
                  /\ fired' = <<Fire("client_message_arrived", None)>>]_vars

-----------------------------------------------------------------------------
(* C12 *)

\* the twelve keys _parse_messages is meant to act on
RecognisedKeys ==
    { DefKey(k) : k \in Types } \cup { SetKey(k) : k \in Types }
    \cup { <<"message">>, <<"deleteProperty">> }

\* C12: a message whose top-level key is not one of the five def<Kind>Vector
\* keys, the five set<Kind>Vector keys, message or deleteProperty is never an
\* error, never changes the registry and fires no notification.
C12_UnknownKeyIgnored ==
    [][\A m \in Messages :
          (ReadOne(last', m) /\ m.key \notin RecognisedKeys)
          => /\ raised' = "none"
             /\ client_devices' = client_devices
             /\ fired' = <<>>]_vars
-----------------------------------------------------------------------------
(* C13 *)

\* the last call was data_received with the bytes d
ReadBytes(l, d) == l = [op |-> "data_received", data |-> d]

ShortestObject ==
    CHOOSE n \in { Len(Dumps(o)) : o \in WireObjects } :
        \A o \in WireObjects : n <= Len(Dumps(o))

\* the lists of objects whose texts fit together in the stream
ObjLists ==
    UNION { [1..n -> WireObjects] : n \in 0..(MaxWire \div ShortestObject) }

RECURSIVE Concat(_)
Concat(texts) ==
    IF texts = <<>> THEN <<>> ELSE Head(texts) \o Concat(Tail(texts))

TextOf(objs) == Concat([i \in 1..Len(objs) |-> Dumps(objs[i])])

\* msgs has one object per object of objs, under the same keys, in the order
\* of objs
OnePerObject(msgs, objs) ==
    /\ Len(msgs) = Len(objs)
    /\ \A i \in 1..Len(objs) :
           /\ msgs[i].t = "obj"
           /\ [j \in 1..Len(msgs[i].m) |-> msgs[i].m[j][1]]
                  = [j \in 1..Len(objs[i].m) |-> objs[i].m[j][1]]

\* C13: when data_received is given a chunk that is the concatenation of n
\* complete JSON objects with no delimiter between them, the client
\* dispatches exactly n messages, one per object, in their order on the
\* wire; so does parse_json_stream.
C13_ConcatenatedObjects ==
    [][\A objs \in ObjLists :
          ReadBytes(last', TextOf(objs))
          => /\ raised' = "none"
             /\ OnePerObject(dispatched', objs)
             /\ OnePerObject(parse_json_stream(TextOf(objs)), objs)]_vars

\* a read of two objects in one chunk, the first with a text value and the
\* second with a nested object, was dispatched as two messages
C13_Witness ==
    /\ \E objs \in ObjLists :
           /\ Len(objs) = 2
           /\ objs[1] # objs[2]
           /\ ReadBytes(last, TextOf(objs))
    /\ Len(dispatched) = 2
    /\ raised = "none"
-----------------------------------------------------------------------------
(* C14 *)

\* C14: when a JSON object arrives split across two data_received calls, the
\* first part is buffered (nothing is raised, nothing is dispatched, the
\* session goes on) and the object is dispatched exactly once, after the
\* second part has arrived.
C14_SplitObjectBuffered ==
    [][\A o \in WireObjects : \A k \in 1..(Len(Dumps(o)) - 1) :
          /\ ReadBytes(last', SubSeq(Dumps(o), 1, k))
             => /\ raised' = "none"
                /\ loop' = "running"
                /\ dispatched' = <<>>
          /\ (/\ ReadBytes(last, SubSeq(Dumps(o), 1, k))
              /\ ReadBytes(last', SubSeq(Dumps(o), k + 1, Len(Dumps(o)))))
             => /\ raised' = "none"
                /\ OnePerObject(dispatched', <<o>>)]_vars

-----------------------------------------------------------------------------
(* C15 *)

JunkItem == [t |-> "junk", s |-> <<Junk>>, m |-> <<>>, e |-> <<>>]

ItemText(i) == IF i.t = "junk" THEN i.s ELSE Dumps(i)

\* streams of up to three items, stray bytes among well-formed objects
JunkStreams ==
    { its \in UNION { [1..n -> WireObjects \cup {JunkItem}] : n \in 2..3 } :
          /\ \E i \in 1..Len(its) : its[i] = JunkItem
          /\ \E i \in 1..Len(its) : its[i] # JunkItem }

ObjectsOf(its) == SelectSeq(its, LAMBDA i : i # JunkItem)

\* C15: malformed input on the inbound stream is never fatal: the decoder
\* skips it, every well-formed object before and after it is dispatched, and
\* the session goes on.
C15_MalformedSkipped ==
    [][\A its \in JunkStreams :
          ReadBytes(last', Concat([i \in 1..Len(its) |-> ItemText(its[i])]))
          => /\ raised' = "none"
             /\ loop' = "running"
             /\ OnePerObject(dispatched', ObjectsOf(its))]_vars
-----------------------------------------------------------------------------
(* C16 *)

\* the last call was read() on the element elem
ReadElem(l, elem) == l = [op |-> "read", elem |-> elem]

\* the driver has device D and D has property P
DriverHolds(dd, D, P) ==
    /\ DictHas(dd, D)
    /\ DictHas(get_driver_device(dd, D).properties, P)

DriverProperty(dd, D, P) ==
    DictGet(get_driver_device(dd, D).properties, P, NoProperty)

\* C16: when the driver receives a new<Kind>Vector request for a registered
\* device and property, it invokes exactly one callback exactly once: the
\* listener registered for that property name if there is one, and the
\* generic per-device hook only if no listener is registered for that name.
C16_ExactlyOneCallback ==
    [][\A elem \in NewElements :
          (/\ ReadElem(last', elem)
           /\ DriverHolds(driver_devices, elem.device, elem.name))
          => LET d == get_driver_device(driver_devices, elem.device)
                 func == DictGet(d.listener_properties, elem.name, None)
             IN  /\ Len(called') = 1
                 /\ called'[1].func = IF func # None THEN func
                                      ELSE "client_asks_for_change"]_vars

-----------------------------------------------------------------------------
(* C17 *)

\* the children of elem that are one<kind> elements
KindChildren(elem, kind) ==
    SelectSeq(elem.children, LAMBDA c : c.tag = <<"one", kind>>)

\* the dict it is what the request says of the child c of a property of
\* kind kind
ItemOfChild(it, c, kind) ==
    /\ DictGet(it, "value", "absent") = c.text
    /\ IF kind = TYPE_BLOB
       THEN /\ DictKeys(it) = {"value", "size", "format"}
                                  \cup (IF c.url # None THEN {"url"} ELSE {})
            /\ DictGet(it, "size", "absent") = c.size
            /\ DictGet(it, "format", "absent") = c.format
            /\ c.url # None => DictGet(it, "url", "absent") = c.url
       ELSE DictKeys(it) = {"value"}

-----------------------------------------------------------------------------
(* C18 *)

\* the request elem names no device, a device the driver does not have, or
\* a property its device does not have
Unresolvable(dd, elem) ==
    \/ elem.device = None
    \/ ~DriverHolds(dd, elem.device, elem.name)

\* C18: a new<Kind>Vector request whose device attribute is missing or names
\* no owned device, or whose name attribute names no property of that
\* device, is silently ignored: no listener or hook is invoked, nothing is
\* written to the output, and the model is unchanged.
C18_UnresolvableIgnored ==
    [][\A elem \in NewElements :
          (ReadElem(last', elem) /\ Unresolvable(driver_devices, elem))
          => /\ called' = <<>>
             /\ printed' = <<>>
             /\ driver_devices' = driver_devices]_vars

-----------------------------------------------------------------------------
(* C19 *)

\* C19: the driver engine never applies client-requested values itself: the
\* listeners and the hook doing nothing, after processing any new<Kind>Vector
\* request every property's state and every item's value in the driver's
\* model is the same as before the request.
C19_EngineAppliesNothing ==
    [][\A elem \in NewElements :
          ReadElem(last', elem) => driver_devices' = driver_devices]_vars

\* a request for a value the item does not have has reached a callback, and
\* the item has kept its value
C19_Witness ==
    /\ last.op = "read"
    /\ last.elem.tag[1] = "new"
    /\ called # <<>>
    /\ DriverHolds(driver_devices, last.elem.device, last.elem.name)
    /\ LET prop == DriverProperty(driver_devices, last.elem.device,
                                  last.elem.name)
           c == last.elem.children[1]
       IN  /\ DictHas(prop.items, c.name)
           /\ DictGet(prop.items, c.name, NoProperty).value # c.text

-----------------------------------------------------------------------------
(* C20 *)

\* the definition messages among the lines written
Definitions(lines) == SelectSeq(lines, LAMBDA l : l[1] = "<def")

\* the device and the property a definition message names
DefinitionOf(l) == <<l[7], l[12]>>

\* defs has exactly one definition for each property of each device of dd
\* that is in the set devs, and nothing else
OneDefinitionEach(defs, dd, devs) ==
    /\ \A i \in 1..Len(defs) :
           /\ DefinitionOf(defs[i])[1] \in devs
           /\ DriverHolds(dd, DefinitionOf(defs[i])[1], DefinitionOf(defs[i])[2])
           /\ defs[i] = PrintLine(Property_get_def_xml(
                  DriverProperty(dd, DefinitionOf(defs[i])[1],
                                 DefinitionOf(defs[i])[2])))
    /\ \A D \in devs \cap DictKeys(dd) :
           \A P \in DictKeys(get_driver_device(dd, D).properties) :
               Cardinality({ i \in 1..Len(defs) :
                                 DefinitionOf(defs[i]) = <<D, P>> }) = 1

\* C20: on a getProperties request the driver emits exactly these definition
\* messages: if the request names a device, one definition per property of
\* that device and none for any other device (none at all if the device is
\* not owned); if it names no device, one definition per property of every
\* owned device.
C20_GetPropertiesDefinitions ==
    [][\A elem \in GetPropertiesElements :
          ReadElem(last', elem)
          => OneDefinitionEach(Definitions(printed'), driver_devices,
                               IF elem.device # None THEN {elem.device}
                               ELSE DictKeys(driver_devices))]_vars

\* a getProperties request for D1 has been answered while D2 has a property
\* too
C20_Witness ==
    /\ last.op = "read"
    /\ last.elem.tag = <<"getProperties">>
    /\ last.elem.device = "D1"
    /\ Len(Definitions(printed)) = 2
    /\ DriverHolds(driver_devices, "D2", "P1")
-----------------------------------------------------------------------------
(* C21 *)

\* the positions of the switchProtocol acknowledgement among the lines
Acks(lines) == { i \in 1..Len(lines) : lines[i] = PrintLine(SwitchProtocol) }

\* the positions of the definition messages among the lines
DefinitionAt(lines) == { i \in 1..Len(lines) : lines[i][1] = "<def" }

\* C21: when a getProperties request declares a protocol-version switch, the
\* driver writes the switchProtocol acknowledgement before the first
\* definition message it emits for that request; when the request declares
\* no switch, no acknowledgement is written.
C21_AckForAnySwitch ==
    [][\A elem \in GetPropertiesElements :
          ReadElem(last', elem)
          => IF elem.switch # None
             THEN /\ Cardinality(Acks(printed')) = 1
                  /\ \A a \in Acks(printed'), d \in DefinitionAt(printed') : a < d
             ELSE Acks(printed') = {}]_vars

\* C21 as the code has it: when a getProperties request declares the switch
\* to version 2.0, the driver writes the switchProtocol acknowledgement once,
\* before the first definition message it emits for that request; when the
\* request declares no switch, or a switch to another version, no
\* acknowledgement is written.
C21_AckBeforeDefinitions ==
    [][\A elem \in GetPropertiesElements :
          ReadElem(last', elem)
          => IF elem.switch = "2.0"
             THEN /\ Cardinality(Acks(printed')) = 1
                  /\ \A a \in Acks(printed'), d \in DefinitionAt(printed') : a < d
             ELSE Acks(printed') = {}]_vars

\* a request with switch 2.0 has been answered with the acknowledgement and
\* with definitions
C21_Witness ==
    /\ last.op = "read"
    /\ last.elem.tag = <<"getProperties">>
    /\ last.elem.switch = "2.0"
    /\ Acks(printed) # {}
    /\ Cardinality(DefinitionAt(printed)) >= 2

-----------------------------------------------------------------------------
(* C22 : outbound messages never interleave on the byte stream *)

\* the write call i of sys.stdout is the text of a message (not the end of a
\* print)
IsMessageWrite(out, i) == out[i].text # <<"\n">>

\* C22 (as the specification states it): the bytes of each outbound message,
\* its terminator included, are contiguous on the stream: the write of a
\* message is followed at once by the write of its terminator by the same
\* thread
C22_MessagesContiguous ==
    \A i \in 1..Len(stdout) :
        (IsMessageWrite(stdout, i) /\ i < Len(stdout))
            => stdout[i + 1] = [thread |-> stdout[i].thread, text |-> <<"\n">>]

-----------------------------------------------------------------------------
(* C23 : the connection is lost *)

\* C23 (as the specification states it): when the connection is lost the
\* engine holds no devices afterwards, it notifies the application exactly
\* once, and it does not reconnect: the loop is stopped
C23_ConnectionLostReleases ==
    [][last'.op = "connection_lost"
          => /\ client_devices' = <<>>
             /\ Len(fired') = 1
             /\ loop' = "stopped"]_vars

-----------------------------------------------------------------------------
(* C24 : the model never sends on its own *)

\* the calls of the device logic that change the model
IsMutator(l) == l.op \in {"set_value", "set_values", "set_state"}

IsSend(l, D, P) ==
    /\ l.op = "send_property_update"
    /\ l.device = D
    /\ l.name = P

\* C24: set_value, set_values and the state helpers write nothing to the
\* output; a call of send_property_update for a property the device holds
\* writes exactly one message, a set<Kind>Vector, and changes nothing in the
\* model
C24_ModelNeverSends ==
    [][/\ IsMutator(last') => printed' = <<>>
       /\ \A D \in DeviceNames, P \in DevicePropNames :
            (IsSend(last', D, P) /\ DriverHolds(driver_devices, D, P))
                => /\ Len(printed') = 1
                   /\ SubSeq(printed'[1], 1, 3) =
                          <<"<set", DriverProperty(driver_devices, D, P).type,
                            "Vector">>
                   /\ driver_devices' = driver_devices]_vars

\* a value and the state of D1/P1 have been changed and the update has then
\* been sent
C24_Witness ==
    /\ IsSend(last, "D1", "P1")
    /\ DriverHolds(driver_devices, "D1", "P1")
    /\ DriverProperty(driver_devices, "D1", "P1").state = STATE_BUSY
    /\ DictGet(DriverProperty(driver_devices, "D1", "P1").items, "I1",
               NoProperty).value = "v2"
    /\ Len(printed) = 1

-----------------------------------------------------------------------------
(* C25 : set_value with bytes *)

\* the item a set_value call names, in the devices dd
TargetItem(dd, l) ==
    DictGet(DriverProperty(dd, l.device, l.name).items, l.item_name,
            NoProperty)

\* C25: after set_value with the bytes b on an item the device holds, the
\* stored size is the number of bytes of b and the stored value is the
\* base64 text of b: decoding its characters yields b
C25_BytesStoredAsBase64 ==
    [][(/\ last'.op = "set_value"
        /\ last'.value.t = "bytes"
        /\ DriverHolds(driver_devices, last'.device, last'.name)
        /\ TargetItem(driver_devices, last') # NoProperty)
          => LET b == last'.value.b
                 item == TargetItem(driver_devices', last')
             IN  /\ item.size = ToString(Len(b))
                 /\ item.value = Join(b64chars(b))
                 /\ b64decode(b64chars(b)) = b
                 /\ Len(b64chars(b)) = 4 * ((Len(b) + 2) \div 3)]_vars

\* the bytes 255, 0 have been stored: the text is /wA= and the size 2
C25_Witness ==
    /\ last = [op |-> "set_value", device |-> "D2", name |-> "P1",
               item_name |-> "I1", value |-> Bytes(<<255, 0>>)]
    /\ DriverHolds(driver_devices, "D2", "P1")
    /\ TargetItem(driver_devices, last).value = "/wA="
    /\ TargetItem(driver_devices, last).size = "2"

-----------------------------------------------------------------------------
(* C26 : what an item is written as, read back by the decoder *)

\* the value of attribute k of the tag a line of XML starts with, None when
\* the tag has no such attribute (what dict.get gives for a missing key)
RECURSIVE XmlAttr(_, _, _)
XmlAttr(tokens, k, i) ==
    IF i + 2 > Len(tokens) \/ tokens[i] = ">" THEN None
    ELSE IF tokens[i] = k /\ tokens[i + 1] = "='" THEN tokens[i + 2]
    ELSE XmlAttr(tokens, k, i + 1)

\* the text of the element
XmlText(tokens) ==
    LET i == CHOOSE i \in 1..Len(tokens) :
                 /\ tokens[i] = ">"
                 /\ \A j \in 1..(i - 1) : tokens[j] # ">"
    IN  tokens[i + 1]

\* the payload of one item as the decoder is given it: the attributes are
\* the keys, the text is the key value
Payload(tokens) ==
    [name |-> XmlAttr(tokens, "name", 1), label |-> XmlAttr(tokens, "label", 1),
     hints |-> XmlAttr(tokens, "hints", 1),
     format |-> XmlAttr(tokens, "format", 1),
     min |-> XmlAttr(tokens, "min", 1), max |-> XmlAttr(tokens, "max", 1),
     step |-> XmlAttr(tokens, "step", 1), size |-> XmlAttr(tokens, "size", 1),
     value |-> XmlText(tokens)]

SameItem(prop_type, a, b) ==
    /\ a.name = b.name
    /\ a.value = b.value
    /\ prop_type = TYPE_NUMBER
         => /\ a.format = b.format
            /\ a.min = b.min
            /\ a.max = b.max
            /\ a.step = b.step
    /\ prop_type = TYPE_BLOB
         => /\ a.size = b.size
            /\ a.blob_format = b.blob_format

\* the item is written with _get_def_xml and read by PyndigoItem.__init__
DefRoundTrip(prop_type, item) ==
    PyndigoItem_init(prop_type, Payload(Item_get_def_xml(prop_type, item)))

\* the item is written with _get_one_xml and read by PyndigoItem._update on
\* the item the definition gave
OneRoundTrip(prop_type, item) ==
    PyndigoItem_update(DefRoundTrip(prop_type, item),
                       Payload(Item_get_one_xml(prop_type, item)))

\* C26 (as the specification states it): for every item a device holds,
\* decoding what the engine writes for it gives an item with the same name,
\* value and kind-specific attributes
C26_RoundTrip ==
    \A D \in DeviceNames, P \in PropNames :
        DriverHolds(driver_devices, D, P)
            => LET prop == DriverProperty(driver_devices, D, P)
               IN  \A k \in 1..Len(prop.items) :
                       LET item == prop.items[k][2]
                           r == OneRoundTrip(prop.type, item)
                       IN  /\ SameItem(prop.type,
                                       DefRoundTrip(prop.type, item), item)
                           /\ r.raised = "none"
                           /\ SameItem(prop.type, r.item, item)

-----------------------------------------------------------------------------
(* C27 : one listener per property name *)

\* the listener the device D has for the name P, None when it has none
ListenerOf(dd, D, P) ==
    DictGet(get_driver_device(dd, D).listener_properties, P, None)

KeysOnce(d) == \A i, j \in 1..Len(d) : d[i][1] = d[j][1] => i = j

\* the calls of listeners among the calls made
ListenerCalls(calls) ==
    SelectSeq(calls, LAMBDA c : c.func # "client_asks_for_change")

IsListenerCall(l) ==
    l.op \in {"add_property_listener", "remove_property_listener"}

\* C27: a device never holds two listeners for one name; after
\* add_property_listener(name, func) the listener of the name is func,
\* whatever it was before; after remove_property_listener(name) the name has
\* no listener; no other call changes the listeners; and a request that
\* resolves invokes the listener the name has at that moment and no other
\* listener, none when the name has none
C27_OneListenerPerName ==
    [][/\ \A D \in DeviceNames :
            DictHas(driver_devices', D)
                => KeysOnce(get_driver_device(driver_devices', D)
                                .listener_properties)
       /\ last'.op = "add_property_listener"
            => ListenerOf(driver_devices', last'.device, last'.name)
                   = last'.func
       /\ last'.op = "remove_property_listener"
            => ListenerOf(driver_devices', last'.device, last'.name) = None
       /\ ~IsListenerCall(last')
            => \A D \in DeviceNames :
                   DictHas(driver_devices, D)
                       => get_driver_device(driver_devices', D)
                              .listener_properties
                          = get_driver_device(driver_devices, D)
                              .listener_properties
       /\ \A elem \in NewElements :
            (/\ ReadElem(last', elem)
             /\ elem.device # None
             /\ DriverHolds(driver_devices, elem.device, elem.name))
                => LET f == ListenerOf(driver_devices, elem.device, elem.name)
                       calls == ListenerCalls(called')
                   IN  IF f = None THEN calls = <<>>
                       ELSE /\ Len(calls) = 1
                            /\ calls[1].func = f]_vars

\* on_other has been registered for a name that had on_change, and is now
\* the listener of the name
C27_Witness ==
    /\ last.op = "add_property_listener"
    /\ last.had = "on_change"
    /\ last.func = "on_other"
    /\ ListenerOf(driver_devices, last.device, last.name) = "on_other"

-----------------------------------------------------------------------------
(* C28 : the kind a request's tag names *)

\* the kind the tag new<Kind>Vector names
TagKind(elem) == elem.tag[2]

\* C28 (as the specification states it): a request whose tag names another
\* kind than the property it names has does not resolve: no listener and no
\* hook is invoked
C28_KindMismatchUnresolved ==
    [][\A elem \in NewElements :
          (/\ ReadElem(last', elem)
           /\ elem.device # None
           /\ DriverHolds(driver_devices, elem.device, elem.name)
           /\ DriverProperty(driver_devices, elem.device, elem.name).type
                  # TagKind(elem))
              => called' = <<>>]_vars

-----------------------------------------------------------------------------
(* C29 : a property is defined once *)

\* the properties the lines define
DefinedBy(lines) ==
    { DefinitionOf(Definitions(lines)[i]) : i \in 1..Len(Definitions(lines)) }

\* C29 (as the specification states it): a property is never defined a
\* second time on the wire: whatever one request has made the driver define
\* is not defined again by the request read after it
C29_DefinedOnce ==
    [][last'.op = "read" => DefinedBy(printed) \cap DefinedBy(printed') = {}]_vars

-----------------------------------------------------------------------------
(* C30 : an update carries the state and the values of the moment *)

\* the positions of the children one<Kind> in a message, in order
ChildrenAt(tokens) ==
    SelectSeq([i \in 1..Len(tokens) |-> i], LAMBDA i : tokens[i] = "<one")

\* the text of the element that starts at position i
TextAt(tokens, i) ==
    LET j == CHOOSE j \in i..Len(tokens) :
                 /\ tokens[j] = ">"
                 /\ \A k \in i..(j - 1) : tokens[k] # ">"
    IN  tokens[j + 1]

\* the children of a message: kind, name and text of each, in order
ChildrenOf(tokens) ==
    [k \in 1..Len(ChildrenAt(tokens)) |->
        LET i == ChildrenAt(tokens)[k]
        IN  <<tokens[i + 1], XmlAttr(tokens, "name", i), TextAt(tokens, i)>>]

\* the items of a property: kind, name and value of each, in insertion order
ItemsOf(prop) ==
    [k \in 1..Len(prop.items) |->
        <<prop.type, prop.items[k][2].name, prop.items[k][2].value>>]

\* C30: a call of send_property_update for a property the device holds
\* writes one message set<Kind>Vector for that property; its state attribute
\* is the state the property has at the call and its children are one
\* one<Kind> per item, in insertion order, with the value the item has at the
\* call
C30_UpdateIsCurrent ==
    [][\A D \in DeviceNames, P \in DevicePropNames :
          (IsSend(last', D, P) /\ DriverHolds(driver_devices, D, P))
              => LET prop == DriverProperty(driver_devices, D, P)
                 IN  /\ Len(printed') = 1
                     /\ SubSeq(printed'[1], 1, 3) = <<"<set", prop.type, "Vector">>
                     /\ XmlAttr(printed'[1], "device", 1) = D
                     /\ XmlAttr(printed'[1], "name", 1) = P
                     /\ XmlAttr(printed'[1], "state", 1) = prop.state
                     /\ ChildrenOf(printed'[1]) = ItemsOf(prop)]_vars

\* an update of D1/P1 sent after its state and the values of both items were
\* changed: it carries Alert, v2 and v3, not Ok, v1 and v1
C30_Witness ==
    /\ IsSend(last, "D1", "P1")
    /\ Len(printed) = 1
    /\ XmlAttr(printed[1], "state", 1) = STATE_ALERT
    /\ ChildrenOf(printed[1]) =
           <<<<TYPE_TEXT, "I1", "v2">>, <<TYPE_TEXT, "I2", "v3">>>>

-----------------------------------------------------------------------------
(* C31 : a set message leaves the items it does not name alone *)

\* the names of the items a payload lists
NamedItems(json) == { json.items[i].name : i \in 1..Len(json.items) }

\* C31: after PyndigoProperty._update with a payload, the property holds the
\* same items in the same order, and every item the payload does not name is
\* what it was before, value and attributes
C31_UnnamedItemsKept ==
    [][last'.op = "_update"
          => LET before == DriverProperty(driver_devices, last'.device,
                                          last'.name).items
                 after == DriverProperty(driver_devices', last'.device,
                                         last'.name).items
             IN  /\ Len(after) = Len(before)
                 /\ \A k \in 1..Len(before) :
                        /\ after[k][1] = before[k][1]
                        /\ before[k][1] \notin NamedItems(last'.json)
                             => after[k] = before[k]]_vars

\* a payload that names I1 alone has been applied to a property that holds
\* I1 and I2: I1 has the value of the payload, I2 the one it had
C31_Witness ==
    /\ last.op = "_update"
    /\ NamedItems(last.json) = {"I1"}
    /\ LET items == DriverProperty(driver_devices, "D1", "P1").items
       IN  /\ last.name = "P1"
           /\ DictGet(items, "I1", NoProperty).value = "v2"
           /\ DictGet(items, "I2", NoProperty).value = "v1"

-----------------------------------------------------------------------------
(* C32 : the state of a property *)

States == {STATE_IDLE, STATE_OK, STATE_BUSY, STATE_ALERT}

\* C32 (as the specification states it): the state of every property is one
\* of Idle, Ok, Busy, Alert, whatever set messages and state helpers have
\* been applied
C32_StateIsOneOfFour ==
    \A D \in DeviceNames, P \in PropNames :
        DriverHolds(driver_devices, D, P)
            => DriverProperty(driver_devices, D, P).state \in States

-----------------------------------------------------------------------------
(* C33 : Light properties *)

\* C33: every Light property is ReadOnly with timeout 0, whatever its
\* constructor was given and whatever payloads _update was given afterwards
C33_LightReadOnlyNoTimeout ==
    \A D \in DeviceNames, P \in PropNames :
        (/\ DriverHolds(driver_devices, D, P)
         /\ DriverProperty(driver_devices, D, P).type = TYPE_LIGHT)
            => /\ DriverProperty(driver_devices, D, P).perm = PERM_RO
               /\ DriverProperty(driver_devices, D, P).timeout = "0"

\* a Light property constructed with ReadWrite and timeout 10 has been given
\* a payload with timeout 20, which its state shows was applied
C33_Witness ==
    /\ last.op = "_update"
    /\ last.name = "P2"
    /\ last.json.timeout = "20"
    /\ last.json.state = STATE_BUSY
    /\ \E p \in ModelProperties :
           /\ p.type = TYPE_LIGHT
           /\ p.args.name = "P2"
           /\ p.args.perm = PERM_RW
           /\ p.args.timeout = "10"
    /\ DriverProperty(driver_devices, "D1", "P2").type = TYPE_LIGHT
    /\ DriverProperty(driver_devices, "D1", "P2").state = STATE_BUSY
    /\ DriverProperty(driver_devices, "D1", "P2").perm = PERM_RO

-----------------------------------------------------------------------------
(* C34 : what changes in a property after its creation *)

\* the fields the constructor sets and no method assigns afterwards
SameIdentity(p, q) ==
    /\ p.type = q.type
    /\ p.name = q.name
    /\ p.device = q.device
    /\ p.perm = q.perm
    /\ p.label = q.label
    /\ p.group = q.group
    /\ p.rule = q.rule

\* C34 (as the specification states it): whatever call is made, a property
\* keeps its kind, name, permission, label, group, rule and timeout
C34_TimeoutKept ==
    [][\A D \in DeviceNames, P \in PropNames :
          DriverHolds(driver_devices, D, P)
              => /\ DriverHolds(driver_devices', D, P)
                 /\ SameIdentity(DriverProperty(driver_devices, D, P),
                                 DriverProperty(driver_devices', D, P))
                 /\ DriverProperty(driver_devices', D, P).timeout
                        = DriverProperty(driver_devices, D, P).timeout]_vars

\* C34 (amended): whatever call is made, a property keeps its kind, name,
\* permission, label, group and rule; its timeout changes only when _update
\* is applied to it and it is no Light property, and is then the timeout of
\* the payload
C34_IdentityKept ==
    [][\A D \in DeviceNames, P \in PropNames :
          DriverHolds(driver_devices, D, P)
              => LET p == DriverProperty(driver_devices, D, P)
                     q == DriverProperty(driver_devices', D, P)
                 IN  /\ DriverHolds(driver_devices', D, P)
                     /\ SameIdentity(p, q)
                     /\ IF /\ last'.op = "_update"
                           /\ last'.device = D
                           /\ last'.name = P
                           /\ p.type # TYPE_LIGHT
                        THEN q.timeout = last'.json.timeout
                        ELSE q.timeout = p.timeout]_vars

\* a payload with timeout 20 has been applied to the Text property created
\* with timeout 10 and ReadWrite
C34_Witness ==
    /\ last.op = "_update"
    /\ last.name = "P1"
    /\ last.json.timeout = "20"
    /\ DriverProperty(driver_devices, "D1", "P1").timeout = "20"
    /\ DriverProperty(driver_devices, "D1", "P1").perm = PERM_RW
    /\ DriverProperty(driver_devices, "D1", "P1").label = "P1"

-----------------------------------------------------------------------------
(* C35 : closing the stream ends the read loop *)

\* C35: once sys.stdin is closed, the read() that is running returns, after
\* the elements still in the stream, and stays returned: no request is read
\* afterwards; when the connection of the client is lost its event
\* loop is stopped, and a stopped loop stays stopped and changes nothing in
\* the client
C35_ReadLoopsEnd ==
    /\ (stdin.eof /\ reader = "read") ~> (reader = "returned")
    /\ [][reader = "returned"
            => /\ UNCHANGED <<reader, stdin>>
               /\ last' # last => last'.op # "read"]_vars
    /\ [][last'.op = "connection_lost" => loop' = "stopped"]_vars
    /\ [][loop = "stopped"
            => UNCHANGED <<loop, client_devices, client_timestamp,
                           client_message, outbuf, fired>>]_vars

\* read() has returned after reading a request, and the loop of the client
\* has been stopped by a lost connection after a message was received
C35_Witness ==
    /\ reader = "returned"
    /\ stdin.eof
    /\ printed # <<>>
    /\ loop = "stopped"
    /\ client_message = "hello"

-----------------------------------------------------------------------------
(* C36 *)

\* the text of the getProperties request that carries the client's name
GetPropertiesText == DumpGetProperties(ClientName) \o <<Separator>>

\* C36: while the client has no transport nothing has been written, whatever
\* requests the application issued (they are dropped, not kept for later);
\* the step that makes the connection writes exactly the getProperties request
\* carrying the client's name, and whatever is written on the connection later
\* comes after it.
C36_GetPropertiesFirst ==
    /\ [][transport' = None => outbuf' = <<>>]_vars
    /\ [][transport = None /\ transport' # None
            => outbuf' = <<GetPropertiesText>>]_vars
    /\ [](outbuf # <<>> => outbuf[1] = GetPropertiesText)

\* the connection was made and a request for the held property was written
\* after getProperties
C36_Witness ==
    /\ IsUpdate(last)
    /\ transport # None
    /\ Len(outbuf) = 2
    /\ outbuf[1] = GetPropertiesText
    /\ outbuf[2] # GetPropertiesText

\* a request issued with no transport: nothing is written
C36_RequestBeforeConnection ==
    /\ IsUpdate(last)
    /\ transport = None
    /\ outbuf = <<>>

-----------------------------------------------------------------------------
(* C37 *)

\* C37: after a deleteProperty message with timestamp t and message text m
\* for a known device, the record that keeps the deletion's details (the
\* device when the message names a property, the client when it deletes the
\* device) has timestamp t and last message m.
C37_DeletionDetailsKept ==
    [][\A m \in DeleteMessages :
          (/\ ReadOne(last', m)
           /\ Known(client_devices, m.value.device))
          => IF m.value.name = None
             THEN /\ client_timestamp' = m.value.timestamp
                  /\ client_message' = m.value.message
             ELSE LET dev == DictGet(client_devices', m.value.device, NoDevice)
                  IN  /\ dev.timestamp = m.value.timestamp
                      /\ dev.message = m.value.message]_vars

\* the deletion of a device left the message text as the client's timestamp
\* and the timestamp as its last message
C37_DetailsExchanged ==
    /\ ReadOne(last, Msg(<<"deleteProperty">>, DeleteJson("D1", None)))
    /\ ~Known(client_devices, "D1")
    /\ client_timestamp = "bye"
    /\ client_message = "t3"

-----------------------------------------------------------------------------
(* C38 *)

\* C38: whatever set_value calls were made on a BLOB item, with bytes or with
\* text, the stored size is the number of bytes of the payload the stored
\* value encodes: when the value is the base64 text of the bytes b, the size
\* is the length of b.
C38_SizeMatchesValue ==
    DriverHolds(driver_devices, "D2", "P1")
        => LET item == DictGet(DriverProperty(driver_devices, "D2", "P1").items,
                               "I1", NoProperty)
           IN  \A b \in ByteStrings :
                   item.value = Join(b64chars(b)) => item.size = ToString(Len(b))

\* the bytes ABC were set and then the text /wA=, which encodes two bytes:
\* the size is still 3
C38_StaleSize ==
    /\ last = [op |-> "set_value", device |-> "D2", name |-> "P1",
               item_name |-> "I1", value |-> Str("/wA=")]
    /\ DriverHolds(driver_devices, "D2", "P1")
    /\ TargetItem(driver_devices, last).value = Join(b64chars(<<255, 0>>))
    /\ TargetItem(driver_devices, last).size = "3"

-----------------------------------------------------------------------------
(* C39 *)

\* the operations of a device that take a property name
NamedOps ==
    {"set_value", "set_values", "get_value", "set_state",
     "send_property_update"}

\* C39: set_value, set_values, get_value, set_ok, set_busy, set_alert,
\* set_idle and send_property_update called with a property name the device
\* does not hold raise nothing, change nothing in the devices and write
\* nothing.
C39_UnknownNameIsNoOp ==
    [][(/\ last'.op \in NamedOps
        /\ DictHas(driver_devices, last'.device)
        /\ ~DriverHolds(driver_devices, last'.device, last'.name))
          => /\ raised' = "none"
             /\ driver_devices' = driver_devices
             /\ printed' = <<>>]_vars

\* set_busy was called with a name D1 does not hold: the call raised
C39_HelperRaises ==
    /\ last = [op |-> "set_state", device |-> "D1", name |-> "P9",
               helper |-> "set_busy"]
    /\ DictHas(driver_devices, "D1")
    /\ ~DriverHolds(driver_devices, "D1", "P9")
    /\ raised = "AttributeError"

\* the other operations called with a name D1 does not hold left everything
\* as it was and raised nothing
C39_OthersAreNoOps ==
    [][(/\ last'.op \in NamedOps \ {"set_state"}
        /\ DictHas(driver_devices, last'.device)
        /\ ~DriverHolds(driver_devices, last'.device, last'.name))
          => /\ raised' = "none"
             /\ driver_devices' = driver_devices
             /\ printed' = <<>>
             /\ last'.op = "get_value" => last'.result = None]_vars

-----------------------------------------------------------------------------
(* C40 *)

\* an object whose text value holds the characters s
TextObject(s) == JObj(<< <<<<"a">>, JStr(s)>> >>)

\* C40: a read of the text of one well-formed object is decoded as that one
\* object, its text value being the value sent character for character, also
\* when the value holds the two characters }{ ; so does parse_json_stream.
C40_TextValueKept ==
    [][\A o \in WireObjects :
          ReadBytes(last', Dumps(o))
          => /\ raised' = "none"
             /\ dispatched' = <<o>>
             /\ parse_json_stream(Dumps(o)) = <<o>>]_vars

\* the object with the value }{ was read alone: one message was dispatched
\* and its value has a comma between the two characters
C40_ValueAltered ==
    /\ ReadBytes(last, Dumps(TextObject(<<"}", "{">>)))
    /\ raised = "none"
    /\ dispatched = <<TextObject(<<"}", ",", "{">>)>>
    /\ parse_json_stream(Dumps(TextObject(<<"}", "{">>)))
           = <<TextObject(<<"}", "{">>)>>

=============================================================================
